---- MODULE Spec2Model ----
(***************************************************************************)
(* A model of mysql_async.connector: the connection's command dispatch and *)
(* unread-result tracking (connection.py, protocol.py) and the connection  *)
(* pool (pooling.py).                                                      *)
(*                                                                         *)
(* ConnSpec is one AioMySQLConnection talking to a server over its socket. *)
(* ReconnectSpec is its reconnect() and ping().                            *)
(* PoolSpec is one MySQLConPool used by the coroutines of one event loop.  *)
(* TxnSpec is the transactions of one connected connection.                *)
(* NetSpec is one BaseMySQLSocket and its peer (network.py).               *)
(* HandshakeSpec is connect() step by step: stream, greeting, auth.        *)
(* CursorSpec is execute(multi=True) on a cursor of one connection.        *)
(* PreparedSpec is a prepared cursor of a connection that reconnects.      *)
(* SendSpec is one command from drain() to its reply, and the writer.      *)
(* FetchSpec is execute, executemany and the fetch methods of a cursor.    *)
(* ReconnectLoopSpec is reconnect() one turn of its loop at a time.        *)
(* StartSpec is start_transaction on servers before and from 5.6.5.        *)
(***************************************************************************)
EXTENDS Integers, Sequences, FiniteSets, TLC

\* ------------------------------------------------------------- bounds
\* Rows the server puts in one result set (0..MaxRows).
MaxRows == 1
\* Packets that may wait unread on the socket.
MaxWire == 3
\* Largest `attempts` argument given to reconnect()/ping().
MaxAttempts == 2
\* Packets that may wait unread on the socket in TxnSpec, where two result
\* sets of one multi-statement query must fit.
MaxTxnWire == 5
\* Whole chunks of long data in the file given as a parameter (0..MaxChunks).
MaxChunks == 1

\* pool_size given to MySQLConPool().
PoolSize == 2
\* Coroutines of the event loop that use the pool.
NumTasks == 2
\* Connections add_connection() may create beyond the constructor's PoolSize.
MaxExtra == 1
\* Calls of set_config() that are accepted.
MaxConfigs == 2

\* ---------------------------------------------------- program constants
\* cmd_reset_connection: self._server_version < (5, 7, 3), as 5*10000+7*100+3.
ResetMinVersion == 50703

VARIABLES
    \* ---- AioMySQLConnection
    socket,            \* _socket: "none" | "unopened" | "open" | "dead"
    server_version,    \* _server_version: 0 (None) or major*10000+minor*100+patch
    unread_result,     \* _unread_result
    have_next_result,  \* _have_next_result
    in_transaction,    \* _in_transaction
    srv_trans,         \* the server's side: the session is in a transaction
    recv_limit,        \* packets the socket's buffers hold unread (a bound)
    wire,              \* packets the server has written and the client has not read
    last,              \* the last operation called on the connection and its outcome
    \* ---- MySQLConPool
    cnx_config,        \* _cnx_config: 0 is {}, n > 0 the n-th configuration set
    config_version,    \* _config_version: the n-th uuid4() drawn
    cnx_queue,         \* _cnx_queue: sequence of connection ids
    conns,             \* the AioMySQLConnection objects the pool created
    leased,            \* connection id -> number of live PooledMySQLConnection on it
    lock_count,        \* CONNECTION_POOL_LOCK: recursion level of the RLock
    lock_owner,        \* CONNECTION_POOL_LOCK: owning thread, "none" when free
    pc,                \* per coroutine: where it is suspended
    tcnx,              \* per coroutine: the connection its get_connection holds
    plast,             \* the last call of the pool that ended, and its outcome
    \* ---- BaseMySQLSocket
    packet_number,     \* _packet_number
    written,           \* the packets the last send() gave to the stream writer
    inbox,             \* the packets the stream reader has still to deliver
    closed,            \* the peer has closed the stream behind `inbox`
    echo,              \* the payload whose packets the peer has sent back
    nlast,             \* the last call on the socket and its outcome
    \* ---- AioMySQLConnection.connect()
    phase,             \* where connect() stands, "Disconnected" when none runs
    stream,            \* the stream of _socket: "none" | "unopened" | "open" | "closed"
    srv_greeting,      \* the server's side: the greeting it sends to its clients
    greeting,          \* the greeting the server has sent and connect() has not read
    hs_version,        \* _server_version as _do_handshake sets it, <<>> for None
    auth_sent,         \* authentication packets written to the stream
    srv_auth,          \* the server's side: it has accepted the client
    hlast,             \* the last step of connect(), or command, and its outcome
    \* ---- AioMySQLCursor, AioMySQLCursorPrepared
    executed_list,     \* _executed_list: the statements of execute(multi=True)
    executed,          \* _executed: NoStmt (None), WholeText or a statement
    results,           \* the server's side: the statement behind each result
    visited,           \* results the cursor has been handed so far
    prepared,          \* _prepared: the session its statement id is of, 0 for None
    pexecuted,         \* _executed of the prepared cursor: 0 for None
    session,           \* the server's side: sessions this connection has opened
    clast,             \* the last call on a cursor and its outcome
    nextrow,           \* _nextrow: the row read ahead, NoRow for (None, None)
    rowcount,          \* _rowcount
    fetched,           \* the rows the cursor has returned since the last execute
    served,            \* the server's side: rows of the result set being read
    \* ---- _send_cmd and the stream writer
    cmd_pc,            \* where the command in flight stands, "idle" when none is
    cur_cmd,           \* the command in flight, "none" when none is
    wbuf,              \* commands written to the stream writer, not yet on the socket
    unread_replies,    \* replies the server has written that nothing has read
    ncmds,             \* commands begun so far
    drained,           \* a drain() has completed since the last write
    dlast,             \* the last step of a command and what it found
    rpc,               \* reconnect(): "idle", or "loop" at the while statement
    rattempts,         \* reconnect()'s argument `attempts`
    rcounter,          \* reconnect()'s `counter`
    writer             \* _writer of the socket: "none" | "open" | "closed"

connVars == <<socket, server_version, unread_result, have_next_result,
              in_transaction, srv_trans, recv_limit, wire, last>>
poolVars == <<cnx_config, config_version, cnx_queue, conns, leased, lock_count,
              lock_owner, pc, tcnx, plast>>
netVars == <<packet_number, written, inbox, closed, echo, nlast, writer>>
hsVars == <<phase, stream, srv_greeting, greeting, hs_version, auth_sent, srv_auth, hlast>>
fetchVars == <<nextrow, rowcount, fetched, served>>
curVars == <<executed_list, executed, results, visited, prepared, pexecuted,
             session, clast, fetchVars>>
loopVars == <<rpc, rattempts, rcounter>>
sendVars == <<cmd_pc, cur_cmd, wbuf, unread_replies, ncmds, drained, dlast, loopVars>>
vars == <<connVars, poolVars, netVars, hsVars, curVars, sendVars>>

\* =====================================================================
\*                      PART 1: AioMySQLConnection
\* =====================================================================

\* Exceptions, by the name the caller sees.
EUnread == "InternalError: Unread result found."
ENoResult == "InternalError: No result set available."
EOperational == "OperationalError"
EInterface == "InterfaceError"
EDatabase == "DatabaseError"
ENotSupported == "NotSupportedError"
ETypeError == "TypeError"
EProgramming == "ProgrammingError: Transaction already in progress"
EValue == "ValueError"
\* The stream is closed by the peer: readexactly()/drain() raise.
EConnLost == "ConnectionLost"
\* The read never completes (nothing left to read on an open stream).
EBlocked == "Blocked"

\* A packet, as the client sees it: its first payload byte packet[4], the
\* MORE_RESULTS_EXISTS and IN_TRANS status bits of an OK/EOF packet, and the
\* num_params / num_columns of a prepare-OK packet. The server sets the
\* IN_TRANS bit when it writes the packet (Write).
Pkt(b, m, p, k) == [b0 |-> b, more |-> m, trans |-> FALSE, np |-> p, nc |-> k]
NoPkt == Pkt(-1, FALSE, 0, 0)
OkPkt(m) == Pkt(0, m, 0, 0)
EofPkt(m) == Pkt(254, m, 0, 0)
ErrPkt == Pkt(255, FALSE, 0, 0)
\* The column count of the model's result sets is 1.
ColCountPkt == Pkt(1, FALSE, 0, 0)
\* A column definition starts with the length-encoded string "def".
ColDefPkt == Pkt(3, FALSE, 0, 0)
\* A text row starts with the length of its first value (1 byte here).
TextRowPkt == Pkt(1, FALSE, 0, 0)
\* A binary row starts with a 0 header byte.
BinRowPkt == Pkt(0, FALSE, 0, 0)
PrepareOkPkt(p, k) == Pkt(0, FALSE, p, k)
\* The statistics reply is a plain string ("Uptime: ...").
StatsPkt == Pkt(85, FALSE, 0, 0)

RECURSIVE Rep(_, _)
Rep(p, n) == IF n = 0 THEN <<>> ELSE <<p>> \o Rep(p, n - 1)

\* What the server writes for one statement.
TextResultSet(n, m) ==
    <<ColCountPkt, ColDefPkt, EofPkt(m)>> \o Rep(TextRowPkt, n) \o <<EofPkt(m)>>
BinResultSet(n) ==
    <<ColCountPkt, ColDefPkt, EofPkt(FALSE)>> \o Rep(BinRowPkt, n) \o <<EofPkt(FALSE)>>
OneResult(m) == {<<OkPkt(m)>>} \cup {TextResultSet(n, m) : n \in 0..MaxRows}
\* COM_QUERY: one statement, or two (the first flagged more-results).
QueryResponses ==
    {<<ErrPkt>>} \cup OneResult(FALSE)
    \cup {a \o b : a \in OneResult(TRUE),
                    b \in {<<OkPkt(FALSE)>>, <<ErrPkt>>, TextResultSet(0, FALSE)}}
OkOrErr == {<<OkPkt(FALSE)>>, <<ErrPkt>>}
ExecuteResponses == OkOrErr \cup {BinResultSet(n) : n \in 0..MaxRows}
PrepareResponses ==
    {<<ErrPkt>>}
    \cup {<<PrepareOkPkt(p, k)>>
            \o (IF p > 0 THEN Rep(ColDefPkt, p) \o <<EofPkt(FALSE)>> ELSE <<>>)
            \o (IF k > 0 THEN Rep(ColDefPkt, k) \o <<EofPkt(FALSE)>> ELSE <<>>)
          : p \in 0..1, k \in 0..1}

\* The connection as one value: the fields a command reads and writes, plus
\* what the running operation has written (sent) and read (nread) so far and
\* how many times it has called connect().
\* No packet read yet: `first` is the first byte of the first packet a call
\* has read; `long_data` is the lengths of the long-data chunks it has sent.
NoByte == -1

Cnx == [socket |-> socket, ver |-> server_version, unread |-> unread_result,
        more |-> have_next_result, trans |-> in_transaction, strans |-> srv_trans,
        wire |-> wire, sent |-> <<>>, nread |-> 0, connects |-> 0, first |-> NoByte,
        long_data |-> <<>>]

\* How a call ends: the connection after it, the exception raised ("" when
\* it returns), what it returns, the packet a read returned, and for a row
\* read whether the EOF packet was read and how many rows came back.
Res(c, e, r, p, eof, n) ==
    [c |-> c, exc |-> e, ret |-> r, pkt |-> p, eof |-> eof, nrows |-> n]
Raise(c, e) == Res(c, e, "", NoPkt, FALSE, 0)
Return(c, r) == Res(c, "", r, NoPkt, FALSE, 0)

\* ------------------------------------------------ socket (network.py)

EAttribute == "AttributeError"
ERuntime == "RuntimeError: Task got bad yield"

\* _socket.recv(): one packet off the stream.
Recv(c) ==
    IF c.socket = "none" THEN Raise(c, EAttribute)
    ELSE IF c.socket # "open" THEN Raise(c, EConnLost)
    ELSE IF c.wire = <<>> THEN Raise(c, EBlocked)
    ELSE Res([c EXCEPT !.wire = Tail(@), !.nread = @ + 1,
                       !.first = IF c.nread = 0 THEN Head(c.wire).b0 ELSE @],
             "", "", Head(c.wire), FALSE, 0)

\* n calls of _socket.recv() whose packets go to parse_column.
RECURSIVE RecvN(_, _)
RecvN(c, n) ==
    IF n = 0 THEN Return(c, "")
    ELSE LET r == Recv(c) IN IF r.exc # "" THEN r ELSE RecvN(r.c, n - 1)

\* The session's transaction status after the server has run `cmd` and
\* answered `resp`: START TRANSACTION, COMMIT and ROLLBACK change it when they
\* are answered with OK.
ServerTrans(cmd, resp, strans) ==
    IF resp = <<>> \/ Head(resp).b0 # 0 THEN strans
    ELSE IF cmd = "QUERY START TRANSACTION" THEN TRUE
    ELSE IF cmd \in {"QUERY COMMIT", "QUERY ROLLBACK"} THEN FALSE
    ELSE strans

\* The packets of a response with the status the server gives them.
Stamp(resp, strans) ==
    [i \in 1..Len(resp) |->
        IF resp[i].b0 \in {0, 254} THEN [resp[i] EXCEPT !.trans = strans] ELSE resp[i]]

\* yield from self._socket.drain(); self._socket.send(packet): the command
\* reaches the server, which writes its whole response `resp`.
Write(c, cmd, resp) ==
    IF c.socket = "none" THEN Raise(c, EAttribute)
    ELSE IF c.socket = "unopened" THEN Raise(c, EOperational)
    ELSE IF c.socket = "dead" THEN Raise(c, EConnLost)
    ELSE LET st == ServerTrans(cmd, resp, c.strans)
         IN  Return([c EXCEPT !.sent = Append(@, cmd), !.strans = st,
                              !.wire = @ \o Stamp(resp, st)], "")

\* ----------------------------------------- responses (MySQLConnection)

HandleServerStatus(c, p) == [c EXCEPT !.more = p.more, !.trans = p.trans]

HandleOk(c, p) ==
    IF p.b0 = 0 THEN Return(HandleServerStatus(c, p), "ok")
    ELSE IF p.b0 = 255 THEN Raise(c, EDatabase)
    ELSE Raise(c, EInterface)

HandleEof(c, p) ==
    IF p.b0 = 254 THEN Return(HandleServerStatus(c, p), "eof")
    ELSE IF p.b0 = 255 THEN Raise(c, EDatabase)
    ELSE Raise(c, EInterface)

HandleBinaryOk(c, p) ==
    IF p.b0 = 0 THEN Res(c, "", "prepared", p, FALSE, 0)
    ELSE IF p.b0 = 255 THEN Raise(c, EDatabase)
    ELSE Raise(c, EInterface)

\* f applied to the outcome of a call that returned; its exception otherwise.
Then(r, f(_, _)) == IF r.exc # "" THEN r ELSE f(r.c, r.pkt)

\* The column definitions and the EOF packet that follow a column count.
ReadColumns(c, n) ==
    LET cols == RecvN(c, n)
    IN  IF cols.exc # "" THEN cols ELSE Then(Recv(cols.c), HandleEof)

\* ------------------------------------------------- AioMySQLConnection

SendCmd(c, cmd, resp, expect_response) ==
    IF c.unread THEN Raise(c, EUnread)
    ELSE LET w == Write(c, cmd, resp)
         IN  IF w.exc = EAttribute THEN Raise(c, EOperational)
             ELSE IF w.exc # "" THEN w
             ELSE IF ~expect_response THEN Return(w.c, "None")
             ELSE Recv(w.c)

\* _handle_result as it would be if an error packet left a result marked
\* unread.
HandleResultErrorUnread(c, p) ==
    IF p.b0 = 0 THEN HandleOk(c, p)
    ELSE IF p.b0 = 251 THEN Return(c, "coroutine")
    ELSE IF p.b0 = 254 THEN HandleEof(c, p)
    ELSE IF p.b0 = 255 THEN Raise([c EXCEPT !.unread = TRUE], EDatabase)
    ELSE LET r == ReadColumns(c, p.b0)
         IN  IF r.exc # "" THEN r
             ELSE Return([r.c EXCEPT !.unread = TRUE], "columns")

HandleResult(c, p) ==
    IF p.b0 = 0 THEN HandleOk(c, p)
    ELSE IF p.b0 = 251 THEN Return(c, "coroutine")
    ELSE IF p.b0 = 254 THEN HandleEof(c, p)
    ELSE IF p.b0 = 255 THEN Raise(c, EDatabase)
    ELSE LET r == ReadColumns(c, p.b0)
         IN  IF r.exc # "" THEN r
             ELSE Return([r.c EXCEPT !.unread = TRUE], "columns")

HandleBinaryResult(c, p) ==
    IF p.b0 = 0 THEN HandleOk(c, p)
    ELSE IF p.b0 = 254 THEN HandleEof(c, p)
    ELSE IF p.b0 = 255 THEN Raise(c, EDatabase)
    ELSE LET r == ReadColumns(c, p.b0)
         IN  IF r.exc # "" THEN r ELSE Return(r.c, "columns")

\* count=None of get_rows.
NoCount == -1

\* AioMySQLProtocol.read_text_result / read_binary_result: the loop from its
\* i-th turn on, `rows` rows gathered so far; `values` says whether the binary
\* reader holds the values of an earlier row.
RECURSIVE ReadResult(_, _, _, _, _, _)
ReadResult(c, count, binary, i, rows, values) ==
    IF i = count THEN Res(c, "", "rows", NoPkt, FALSE, rows)
    ELSE LET r == Recv(c)
         IN  IF r.exc # "" THEN r
             ELSE IF r.pkt.b0 = 254 THEN Res(r.c, "", "rows", r.pkt, TRUE, rows)
             ELSE IF ~binary
                  THEN ReadResult(r.c, count, binary, i + 1, rows + 1, values)
             ELSE IF r.pkt.b0 = 0
                  THEN ReadResult(r.c, count, binary, i + 1, rows + 1, TRUE)
             ELSE ReadResult(r.c, count, binary, i + 1,
                             IF values THEN rows + 1 ELSE rows, values)

\* get_rows as it would be if every call that returns cleared the flag.
GetRowsClearsAlways(c, count, binary) ==
    IF ~c.unread THEN Raise(c, ENoResult)
    ELSE LET r == ReadResult(c, count, binary, 0, 0, FALSE)
         IN  IF r.exc # "" THEN r
             ELSE [r EXCEPT !.c = [r.c EXCEPT !.unread = FALSE]]

GetRows(c, count, binary) ==
    IF ~c.unread THEN Raise(c, ENoResult)
    ELSE LET r == ReadResult(c, count, binary, 0, 0, FALSE)
         IN  IF r.exc # "" THEN r
             ELSE IF r.eof
                  THEN [r EXCEPT !.c = [HandleServerStatus(r.c, r.pkt)
                                          EXCEPT !.unread = FALSE]]
             ELSE r

GetRow(c, binary) == GetRows(c, 1, binary)

CmdInitDbOp(c, resp) == Then(SendCmd(c, "INIT_DB", resp, TRUE), HandleOk)

\* cmd_query(query); `cmd` is COM_QUERY with the statement when the
\* statement matters to the server's state.
CmdQueryStmtOp(c, cmd, resp) ==
    LET r == Then(SendCmd(c, cmd, resp, TRUE), HandleResult)
    IN  IF r.exc # "" THEN r
        ELSE IF r.c.more THEN Raise(r.c, EInterface)
        ELSE r

CmdQueryOp(c, resp) == CmdQueryStmtOp(c, "QUERY", resp)

NextResultOp(c) ==
    IF ~c.more THEN Return(c, "None")
    ELSE IF c.unread THEN Raise(c, EUnread)
    ELSE Then(Recv(c), HandleResult)

CmdQueryManyOp(c, resp) == Then(SendCmd(c, "QUERY", resp, TRUE), HandleResult)

\* The server closes the stream when it reads COM_QUIT.
CmdQuitOp(c) ==
    IF c.unread THEN Raise(c, EUnread)
    ELSE LET w == Write(c, "QUIT", <<>>)
         IN  IF w.exc # "" THEN w
             ELSE Return([w.c EXCEPT !.socket = "dead"], "packet")

CmdStatisticsOp(c, resp) ==
    IF c.unread THEN Raise(c, EUnread)
    ELSE LET w == Write(c, "STATISTICS", resp)
         IN  IF w.exc # "" THEN w
             ELSE LET r == Recv(w.c)
                  IN  IF r.exc # "" THEN r ELSE Return(r.c, "statistics")

CmdPingOp(c, resp) == Then(SendCmd(c, "PING", resp, TRUE), HandleOk)

\* `packet = yield from self._protocol.make_change_user(...)`: make_change_user
\* is the plain method of MySQLProtocol and returns the packet's bytes, so the
\* coroutine yields the first byte to the event loop, which throws
\* RuntimeError into it; a connection that never connected has no _protocol.
CmdChangeUserOp(c) ==
    IF c.unread THEN Raise(c, EUnread)
    ELSE IF c.socket = "none" THEN Raise(c, EAttribute)
    ELSE Raise(c, ERuntime)

\* The parameter or column definitions after a prepare-OK, and their EOF.
ReadDefinitions(c, n) == IF n > 0 THEN ReadColumns(c, n) ELSE Return(c, "")

CmdStmtPrepareOp(c, resp) ==
    LET ok == Then(SendCmd(c, "STMT_PREPARE", resp, TRUE), HandleBinaryOk)
    IN  IF ok.exc # "" THEN ok
        ELSE LET ps == ReadDefinitions(ok.c, ok.pkt.np)
             IN  IF ps.exc # "" THEN ps
                 ELSE LET cs == ReadDefinitions(ps.c, ok.pkt.nc)
                      IN  IF cs.exc # "" THEN cs ELSE Return(cs.c, "prepared")

\* chunk_size of cmd_stmt_send_long_data.
ChunkSize == 8192
\* The lengths of the files given as a parameter.
FileSizes == {k * ChunkSize + d : k \in 0..MaxChunks, d \in {0, 1}}

\* data.read() with no size: the rest of the file in one piece.
ReadChunkWhole(size) == size

\* data.read(chunk_size) of a file with `size` bytes left.
ReadChunk(size) == IF size < ChunkSize THEN size ELSE ChunkSize

\* cmd_stmt_send_long_data on a file with `size` bytes left: one packet per
\* chunk read off the file, no response.
RECURSIVE CmdStmtSendLongDataOp(_, _)
CmdStmtSendLongDataOp(c, size) ==
    IF ReadChunk(size) = 0 THEN Return(c, "total_sent")
    ELSE LET r == SendCmd(c, "STMT_SEND_LONG_DATA", <<>>, FALSE)
         IN  IF r.exc # "" THEN r
             ELSE CmdStmtSendLongDataOp(
                      [r.c EXCEPT !.long_data = Append(@, ReadChunk(size))],
                      size - ReadChunk(size))

\* `size` is NoCount when no parameter is file-like.
CmdStmtExecuteOp(c, size, resp) ==
    LET ld == IF size = NoCount THEN Return(c, "")
              ELSE CmdStmtSendLongDataOp(c, size)
    IN  IF ld.exc # "" THEN ld
        ELSE Then(SendCmd(ld.c, "STMT_EXECUTE", resp, TRUE), HandleBinaryResult)

CmdStmtCloseOp(c) ==
    LET r == SendCmd(c, "STMT_CLOSE", <<>>, FALSE)
    IN  IF r.exc # "" THEN r ELSE Return(r.c, "None")

CmdStmtResetOp(c, resp) ==
    LET r == Then(SendCmd(c, "STMT_RESET", resp, TRUE), HandleOk)
    IN  IF r.exc # "" THEN r ELSE Return(r.c, "None")

CmdResetConnectionOp(c, resp) ==
    IF c.ver = 0 THEN Raise(c, ETypeError)
    ELSE IF c.ver < ResetMinVersion THEN Raise(c, ENotSupported)
    ELSE LET r == Then(SendCmd(c, "RESET_CONNECTION", resp, TRUE), HandleOk)
         IN  IF r.exc # "" THEN r ELSE Return(r.c, "None")

\* ------------------------------------------------------- transactions

\* start_transaction: readonly needs a server of 5.6.5 or later.
ReadOnlyMinVersion == 50605

ExecuteQuery(c, stmt, resp) ==
    IF c.unread THEN Raise(c, EUnread)
    ELSE LET r == CmdQueryStmtOp(c, "QUERY " \o stmt, resp)
         IN  IF r.exc # "" THEN r ELSE Return(r.c, "None")

\* The steps of start_transaction after its in_transaction test, in the
\* order of the code: `iso` is "none", "level" (one of the four levels) or
\* "unknown"; `ro` is "none" or "mode" (True or False).
StartSteps(iso, ro) ==
    (IF iso = "none" THEN <<>>
     ELSE IF iso = "unknown" THEN <<"raise ValueError">>
     ELSE <<"SET TRANSACTION ISOLATION LEVEL">>)
    \o (IF ro = "none" THEN <<>>
        ELSE <<"check server version", "SET TRANSACTION ACCESS MODE">>)
    \o <<"START TRANSACTION">>

\* One step of start_transaction: a test that raises, or a statement given
\* to _execute_query.
StartStep(c, step, resp) ==
    IF step = "raise ValueError" THEN Raise(c, EValue)
    ELSE IF step = "check server version"
         THEN IF c.ver = 0 THEN Raise(c, ETypeError)
              ELSE IF c.ver < ReadOnlyMinVersion THEN Raise(c, EValue)
              ELSE Return(c, "")
    ELSE ExecuteQuery(c, step, resp)

\* The steps from the i-th on; the first to raise ends the call.
RECURSIVE RunSteps(_, _, _, _)
RunSteps(c, steps, resps, i) ==
    IF i > Len(steps) THEN Return(c, "None")
    ELSE LET r == StartStep(c, steps[i], resps[i])
         IN  IF r.exc # "" THEN r ELSE RunSteps(r.c, steps, resps, i + 1)

\* start_transaction(isolation_level, readonly); resps[i] is the server's
\* answer to the statement of the i-th step.
StartTransactionOp(c, iso, ro, resps) ==
    IF c.trans THEN Raise(c, EProgramming)
    ELSE RunSteps(c, StartSteps(iso, ro), resps, 1)

CommitOp(c, resp) == ExecuteQuery(c, "COMMIT", resp)

\* rollback(): get_rows() when a result is unread, then ROLLBACK. The outcome
\* keeps what get_rows read.
RollbackOp(c, resp) ==
    IF c.unread
    THEN LET g == GetRows(c, NoCount, FALSE)
         IN  IF g.exc # "" THEN g
             ELSE LET r == ExecuteQuery(g.c, "ROLLBACK", resp)
                  IN  [r EXCEPT !.eof = g.eof, !.nrows = g.nrows]
    ELSE ExecuteQuery(c, "ROLLBACK", resp)

IsConnected(c, resp) ==
    LET r == CmdPingOp(c, resp)
    IN  IF r.exc # "" THEN Return(r.c, "False") ELSE Return(r.c, "True")

\* cursor() after is_connected() has ended as cn.
CursorIfConnected(cn) ==
    IF cn.ret = "False" THEN Raise(cn.c, EOperational) ELSE Return(cn.c, "cursor")

\* cursor(): the unread-result test, then is_connected(); p is what the
\* call before it returned.
NewCursor(c, p) ==
    IF c.unread THEN Raise(c, EUnread)
    ELSE CursorIfConnected(IsConnected(c, <<OkPkt(FALSE)>>))

\* reset_session after cmd_reset_connection() has ended as r: the except
\* clause for NotSupportedError, then cursor().
ResetFallback(r, compress) ==
    IF r.exc = ENotSupported
    THEN IF compress THEN Raise(r.c, ENotSupported)
         ELSE Then(CmdChangeUserOp(r.c), NewCursor)
    ELSE Then(r, NewCursor)

\* reset_session after is_connected() has ended as cn.
ResetIfConnected(cn, compress, resp) ==
    IF cn.ret = "False" THEN Raise(cn.c, EOperational)
    ELSE ResetFallback(CmdResetConnectionOp(cn.c, resp), compress)

\* reset_session() with no variables to set; `compress` is _compress.
ResetSessionOp(c, compress, resp) ==
    ResetIfConnected(IsConnected(c, <<OkPkt(FALSE)>>), compress, resp)

\* The versions of the servers the connection meets: 5.7.2 and 5.7.3.
ServerVersions == {ResetMinVersion - 1, ResetMinVersion}

\* How one connect() followed by is_connected() goes, as the network and the
\* server decide it: the stream cannot be opened; the handshake or the
\* authentication fails; the session is set up and the server goes away
\* before it answers the ping; the session is set up and the server answers.
AttemptOutcomes == {"open_fail", "auth_fail", "ping_fail", "live"}

\* connect(): disconnect(), then _open_connection() on a new socket object
\* and a new session of the server. _post_connection() calls coroutines
\* without running them, and an OK packet that ends the authentication is not
\* given to _handle_ok: no flag of the connection is reset.
ConnectOp(c, out, ver) ==
    LET n == [c EXCEPT !.connects = @ + 1, !.wire = <<>>, !.strans = FALSE]
    IN  IF out = "open_fail" THEN Raise([n EXCEPT !.socket = "unopened"], EInterface)
        ELSE IF out = "auth_fail" THEN Raise([n EXCEPT !.socket = "dead"], EDatabase)
        ELSE Return([n EXCEPT !.socket = "open", !.ver = ver,
                              !.sent = Append(@, "AUTH")], "None")

\* One turn of reconnect()'s try block: connect(), then is_connected().
Attempt(c, out, ver) ==
    LET r == ConnectOp(c, out, ver)
    IN  IF r.exc # "" THEN r
        ELSE IF out = "ping_fail"
             THEN IsConnected([r.c EXCEPT !.socket = "dead"], <<OkPkt(FALSE)>>)
        ELSE IsConnected(r.c, <<OkPkt(FALSE)>>)

\* reconnect(attempts, delay): the while loop with `counter` turns done;
\* outs[k] decides the k-th turn.
RECURSIVE ReconnectLoop(_, _, _, _, _)
ReconnectLoop(c, attempts, outs, ver, counter) ==
    IF counter = attempts THEN Return(c, "None")
    ELSE LET r == Attempt(c, outs[counter + 1], ver)
         IN  IF r.exc # ""
             THEN IF counter + 1 = attempts THEN Raise(r.c, EInterface)
                  ELSE ReconnectLoop(r.c, attempts, outs, ver, counter + 1)
             ELSE IF r.ret = "True" THEN Return(r.c, "None")
             ELSE ReconnectLoop(r.c, attempts, outs, ver, counter + 1)

ReconnectOp(c, attempts, outs, ver) == ReconnectLoop(c, attempts, outs, ver, 0)

PingOp(c, reconnect, attempts, outs, ver) ==
    LET r == CmdPingOp(c, <<OkPkt(FALSE)>>)
    IN  IF r.exc = "" THEN Return(r.c, "None")
        ELSE IF reconnect THEN ReconnectOp(r.c, attempts, outs, ver)
        ELSE Raise(r.c, EInterface)

\* ------------------------------------------------- ConnSpec: actions

\* The caller's call `op` (with integer argument `arg`) ends as `r`.
CommitCnx(op, arg, r) ==
    /\ Len(r.c.wire) <= recv_limit
    /\ recv_limit' = recv_limit
    /\ socket' = r.c.socket
    /\ in_transaction' = r.c.trans
    /\ srv_trans' = r.c.strans
    /\ server_version' = r.c.ver
    /\ unread_result' = r.c.unread
    /\ have_next_result' = r.c.more
    /\ wire' = r.c.wire
    /\ last' = [op |-> op, arg |-> arg, pre_unread |-> unread_result,
                pre_more |-> have_next_result, pre_trans |-> in_transaction, exc |-> r.exc, ret |-> r.ret,
                sent |-> r.c.sent, nread |-> r.c.nread, eof |-> r.eof,
                nrows |-> r.nrows, connects |-> r.c.connects,
                live |-> r.c.socket = "open", first |-> r.c.first,
                pre_clean |-> wire = <<>>, long_data |-> r.c.long_data]

Commit(op, arg, r) ==
    /\ CommitCnx(op, arg, r)
    /\ UNCHANGED <<poolVars, netVars, hsVars, curVars, sendVars>>

\* The version the server announces in its handshake: one server, so the
\* version the connection has already seen, if any.
Announced == IF server_version = 0 THEN ServerVersions ELSE {server_version}

Connect ==
    \E out \in AttemptOutcomes \ {"ping_fail"}, ver \in Announced :
        Commit("connect", 0, ConnectOp(Cnx, out, ver))

Reconnect ==
    \E n \in 1..MaxAttempts, ver \in Announced :
        \E outs \in [1..n -> AttemptOutcomes] :
            Commit("reconnect", n, ReconnectOp(Cnx, n, outs, ver))

Ping ==
    \/ Commit("ping", 1, PingOp(Cnx, FALSE, 1, <<>>, server_version))
    \/ \E n \in 1..MaxAttempts, ver \in Announced :
        \E outs \in [1..n -> AttemptOutcomes] :
            Commit("ping_reconnect", n, PingOp(Cnx, TRUE, n, outs, ver))

\* reconnect(attempts), one turn of its loop at a time. The model follows
\* MaxTurns turns of a call.
MaxTurns == 4

\* reconnect(attempts): `counter = 0` and the first test of
\* `while counter != attempts`.
ReconnectStart ==
    /\ rpc = "idle"
    /\ \E n \in -MaxAttempts..MaxAttempts :
        /\ rattempts' = n
        /\ rpc' = IF 0 # n THEN "loop" ELSE "idle"
    /\ rcounter' = 0
    /\ UNCHANGED <<cmd_pc, cur_cmd, wbuf, unread_replies, ncmds, drained, dlast>>
    /\ UNCHANGED <<connVars, poolVars, netVars, hsVars, curVars>>

\* How a turn whose try block has ended as r goes on, `n` being the counter:
\* the except clause raises InterfaceError in the turn where
\* counter == attempts and drops the exception in any other.
TurnResult(r, n) ==
    IF r.exc = "" THEN r
    ELSE IF n = rattempts THEN Raise(r.c, EInterface)
    ELSE Return(r.c, "retry")

\* The turn ends the call when it raises, when is_connected() answered True
\* (break), or when the while condition then finds counter == attempts.
TurnEnds(t, n) == t.exc # "" \/ t.ret = "True" \/ n = rattempts

ReconnectTurnDone(t, n) ==
    /\ CommitCnx("reconnect_turn", rattempts, t)
    /\ rcounter' = n
    /\ rpc' = IF TurnEnds(t, n) THEN "idle" ELSE "loop"
    /\ UNCHANGED <<rattempts, cmd_pc, cur_cmd, wbuf, unread_replies, ncmds, drained,
                   dlast>>
    /\ UNCHANGED <<poolVars, netVars, hsVars, curVars>>

\* `counter += 1` and the try block: connect(), then is_connected().
ReconnectTurn ==
    /\ rpc = "loop"
    /\ rcounter < MaxTurns
    /\ \E out \in AttemptOutcomes, ver \in Announced :
        ReconnectTurnDone(TurnResult(Attempt(Cnx, out, ver), rcounter + 1),
                          rcounter + 1)

\* The server, or the network, closes the stream.
ServerDrop ==
    /\ socket = "open"
    /\ socket' = "dead"
    /\ srv_trans' = FALSE
    /\ UNCHANGED <<server_version, unread_result, have_next_result, in_transaction,
                   wire, last, recv_limit>>
    /\ UNCHANGED <<poolVars, netVars, hsVars, curVars, sendVars>>

CmdQuery == \E resp \in QueryResponses : Commit("cmd_query", 0, CmdQueryOp(Cnx, resp))

CmdQueryMany ==
    \E resp \in QueryResponses : Commit("cmd_query_many", 0, CmdQueryManyOp(Cnx, resp))

NextResult == Commit("next_result", 0, NextResultOp(Cnx))

GetRowsCall ==
    \E count \in {NoCount} \cup 0..MaxRows, binary \in BOOLEAN :
        Commit(IF binary THEN "get_rows_binary" ELSE "get_rows", count,
               GetRows(Cnx, count, binary))

GetRowCall ==
    \E binary \in BOOLEAN :
        Commit(IF binary THEN "get_row_binary" ELSE "get_row", 1, GetRow(Cnx, binary))

CmdInitDb == \E resp \in OkOrErr : Commit("cmd_init_db", 0, CmdInitDbOp(Cnx, resp))

CmdPing == Commit("cmd_ping", 0, CmdPingOp(Cnx, <<OkPkt(FALSE)>>))

CmdQuit == Commit("cmd_quit", 0, CmdQuitOp(Cnx))

CmdStatistics == Commit("cmd_statistics", 0, CmdStatisticsOp(Cnx, <<StatsPkt>>))

CmdChangeUser == Commit("cmd_change_user", 0, CmdChangeUserOp(Cnx))

CmdStmtPrepare ==
    \E resp \in PrepareResponses :
        Commit("cmd_stmt_prepare", 0, CmdStmtPrepareOp(Cnx, resp))

CmdStmtExecute ==
    \E size \in {NoCount} \cup FileSizes, resp \in ExecuteResponses :
        Commit("cmd_stmt_execute", size, CmdStmtExecuteOp(Cnx, size, resp))

CmdStmtClose == Commit("cmd_stmt_close", 0, CmdStmtCloseOp(Cnx))

CmdStmtReset ==
    \E resp \in OkOrErr : Commit("cmd_stmt_reset", 0, CmdStmtResetOp(Cnx, resp))

CmdResetConnection ==
    \E resp \in OkOrErr :
        Commit("cmd_reset_connection", 0, CmdResetConnectionOp(Cnx, resp))

ResetSession ==
    \E compress \in BOOLEAN, resp \in OkOrErr :
        Commit("reset_session", IF compress THEN 1 ELSE 0,
               ResetSessionOp(Cnx, compress, resp))

StartTransaction ==
    \E iso \in {"none", "level", "unknown"}, ro \in {"none", "mode"} :
        \E resps \in [1..Len(StartSteps(iso, ro)) -> OkOrErr] :
            Commit("start_transaction", 0, StartTransactionOp(Cnx, iso, ro, resps))

CommitTxn == \E resp \in OkOrErr : Commit("commit", 0, CommitOp(Cnx, resp))

Rollback == \E resp \in OkOrErr : Commit("rollback", 0, RollbackOp(Cnx, resp))

ConnInit ==
    /\ socket = "none"
    /\ server_version = 0
    /\ unread_result = FALSE
    /\ have_next_result = FALSE
    /\ wire = <<>>
    /\ in_transaction = FALSE
    /\ srv_trans = FALSE
    /\ last = [op |-> "init", arg |-> 0, pre_unread |-> FALSE, pre_more |-> FALSE,
               pre_trans |-> FALSE,
               exc |-> "", ret |-> "", sent |-> <<>>, nread |-> 0, eof |-> FALSE,
               nrows |-> 0, connects |-> 0, live |-> FALSE, first |-> NoByte,
               pre_clean |-> TRUE, long_data |-> <<>>]

ConnNext ==
    \/ Connect
    \/ ServerDrop
    \/ CmdQuery
    \/ CmdQueryMany
    \/ NextResult
    \/ GetRowsCall
    \/ GetRowCall
    \/ CmdInitDb
    \/ CmdPing
    \/ CmdQuit
    \/ CmdStatistics
    \/ CmdChangeUser
    \/ CmdStmtPrepare
    \/ CmdStmtExecute
    \/ CmdStmtClose
    \/ CmdStmtReset
    \/ CmdResetConnection
    \/ ResetSession

\* =====================================================================
\*                         PART 2: MySQLConPool
\* =====================================================================

EPool == "PoolError"

Tasks == 1..NumTasks
ConnIds == 1..(PoolSize + MaxExtra)
\* The coroutines of one event loop all run on the loop's thread.
Thread(t) == "loop"

Range(q) == {q[i] : i \in 1..Len(q)}

RECURSIVE Sum(_, _)
Sum(f, S) == IF S = {} THEN 0 ELSE LET x == CHOOSE y \in S : TRUE
                                   IN  f[x] + Sum(f, S \ {x})

\* An AioMySQLConnection of the pool: the configuration config() gave it, its
\* _pool_config_version and its socket.
NoConn == [made |-> FALSE, cfg |-> 0, ver |-> 0, sock |-> "none"]
NewConn(cfg, ver) == [made |-> TRUE, cfg |-> cfg, ver |-> ver, sock |-> "none"]

\* threading.RLock: free, or held by the calling thread.
CanAcquire(t) == lock_owner \in {"none", Thread(t)}

\* Coroutines suspended inside get_connection's `with CONNECTION_POOL_LOCK`.
Holders == {t \in Tasks : pc[t] # "idle"}

\* MySQLConnectionPool._queue_connection: put(cnx, block=False); a full
\* queue keeps what it holds.
QueueConnection(q, c) == IF Len(q) < PoolSize THEN Append(q, c) ELSE q

\* What the except block of get_connection ends with after _queue_connection:
\* the error it re-raises, or, the queue being full, the PoolError of the
\* library versions whose _queue_connection raises it.
QueueConnectionRaises(q, e) == IF Len(q) < PoolSize THEN {e} ELSE {e, EPool}

\* A call of the pool ends.
Done(op, c, exc) == plast' = [op |-> op, cnx |-> c, exc |-> exc]

\* get_connection() of coroutine t ends: the exit of the with block.
Finish(t, c, exc) ==
    /\ pc' = [pc EXCEPT ![t] = "idle"]
    /\ tcnx' = [tcnx EXCEPT ![t] = 0]
    /\ lock_count' = lock_count - 1
    /\ lock_owner' = IF lock_count = 1 THEN "none" ELSE lock_owner
    /\ Done("get_connection", c, exc)

\* get_connection's first step as it would be if an empty queue were waited on
\* (get(block=True)) instead of refused.
GetConnectionStartBlocking(t) ==
    /\ pc[t] = "idle"
    /\ CanAcquire(t)
    /\ lock_count' = lock_count + 1
    /\ lock_owner' = Thread(t)
    /\ IF cnx_queue = <<>>
       THEN /\ pc' = [pc EXCEPT ![t] = "waiting"]
            /\ UNCHANGED <<cnx_queue, tcnx>>
       ELSE /\ cnx_queue' = Tail(cnx_queue)
            /\ tcnx' = [tcnx EXCEPT ![t] = Head(cnx_queue)]
            /\ pc' = [pc EXCEPT ![t] = "is_connected"]
    /\ UNCHANGED <<cnx_config, config_version, conns, leased, plast>>
    /\ UNCHANGED <<connVars, netVars, hsVars, curVars, sendVars>>

\* get_connection() up to its first suspension: the lock is taken and a
\* connection dequeued without blocking. A connection whose socket was never
\* opened fails its ping without suspending, is configured and starts to
\* reconnect.
GetConnectionStart(t) ==
    /\ pc[t] = "idle"
    /\ CanAcquire(t)
    /\ IF cnx_queue = <<>>
       THEN /\ Done("get_connection", 0, EPool)
            /\ UNCHANGED <<cnx_queue, tcnx, conns, pc, lock_count, lock_owner>>
       ELSE LET c == Head(cnx_queue)
            IN  /\ cnx_queue' = Tail(cnx_queue)
                /\ tcnx' = [tcnx EXCEPT ![t] = c]
                /\ lock_count' = lock_count + 1
                /\ lock_owner' = Thread(t)
                /\ IF conns[c].sock \in {"none", "unopened"}
                   THEN /\ conns' = [conns EXCEPT ![c].cfg = cnx_config]
                        /\ pc' = [pc EXCEPT ![t] = "reconnect"]
                   ELSE /\ pc' = [pc EXCEPT ![t] = "is_connected"]
                        /\ UNCHANGED conns
                /\ UNCHANGED plast
    /\ UNCHANGED <<cnx_config, config_version, leased>>
    /\ UNCHANGED <<connVars, netVars, hsVars, curVars, sendVars>>

\* is_connected() has answered: the stamp is compared, and the connection
\* either leased as it is or configured anew and reconnected.
GetConnectionPinged(t) ==
    /\ pc[t] = "is_connected"
    /\ LET c == tcnx[t]
       IN  IF conns[c].sock # "open" \/ config_version # conns[c].ver
           THEN /\ conns' = [conns EXCEPT ![c].cfg = cnx_config]
                /\ pc' = [pc EXCEPT ![t] = "reconnect"]
                /\ UNCHANGED <<leased, tcnx, lock_count, lock_owner, plast>>
           ELSE /\ leased' = [leased EXCEPT ![c] = @ + 1]
                /\ Finish(t, c, "")
                /\ UNCHANGED conns
    /\ UNCHANGED <<cnx_config, config_version, cnx_queue>>
    /\ UNCHANGED <<connVars, netVars, hsVars, curVars, sendVars>>

\* The pool's connection as the connection model sees it.
PoolCnx(cn) ==
    [socket |-> cn.sock, ver |-> 0, unread |-> FALSE, more |-> FALSE,
     trans |-> FALSE, strans |-> FALSE, wire |-> <<>>, sent |-> <<>>, nread |-> 0, connects |-> 0,
     first |-> NoByte, long_data |-> <<>>]

\* cnx.reconnect() (attempts=1) has ended, `out` being how its one attempt
\* went: on InterfaceError the connection goes back to the queue and the
\* error is raised again; otherwise the connection is stamped and leased.
GetConnectionReconnected(t) ==
    /\ pc[t] = "reconnect"
    /\ \E out \in AttemptOutcomes :
        LET c == tcnx[t]
            r == ReconnectOp(PoolCnx(conns[c]), 1, <<out>>, ResetMinVersion)
        IN  IF r.exc = EInterface
            THEN /\ cnx_queue' = QueueConnection(cnx_queue, c)
                 /\ conns' = [conns EXCEPT ![c].sock = r.c.socket]
                 /\ \E e \in QueueConnectionRaises(cnx_queue, EInterface) :
                        Finish(t, c, e)
                 /\ UNCHANGED leased
            ELSE /\ conns' = [conns EXCEPT ![c].sock = r.c.socket,
                                           ![c].ver = config_version]
                 /\ leased' = [leased EXCEPT ![c] = @ + 1]
                 /\ Finish(t, c, "")
                 /\ UNCHANGED cnx_queue
    /\ UNCHANGED <<cnx_config, config_version>>
    /\ UNCHANGED <<connVars, netVars, hsVars, curVars, sendVars>>

\* The task of coroutine t is cancelled while get_connection is suspended:
\* CancelledError is thrown in at the `yield from`. Inside is_connected() the
\* bare `except:` takes it for a failed ping, and get_connection goes on to
\* configure and reconnect. Inside reconnect() `except Exception` catches it
\* where CancelledError is an Exception (Python before 3.8) and raises
\* InterfaceError in its place; where it is a BaseException it leaves
\* reconnect() and get_connection, whose except clause names InterfaceError
\* only. The connect() that was cut short leaves no session.
ECancelled == "CancelledError"

GetConnectionCancelled(t) ==
    /\ pc[t] \in {"is_connected", "reconnect"}
    /\ LET c == tcnx[t]
       IN  IF pc[t] = "is_connected"
           THEN /\ conns' = [conns EXCEPT ![c].cfg = cnx_config]
                /\ pc' = [pc EXCEPT ![t] = "reconnect"]
                /\ UNCHANGED <<cnx_queue, tcnx, lock_count, lock_owner, plast>>
           ELSE /\ conns' = [conns EXCEPT ![c].sock = "dead"]
                /\ \E e \in {EInterface, ECancelled} :
                     IF e = EInterface
                     THEN /\ cnx_queue' = QueueConnection(cnx_queue, c)
                          /\ \E x \in QueueConnectionRaises(cnx_queue, EInterface) :
                                Finish(t, c, x)
                     ELSE /\ UNCHANGED cnx_queue
                          /\ Finish(t, c, ECancelled)
    /\ UNCHANGED <<cnx_config, config_version, leased>>
    /\ UNCHANGED <<connVars, netVars, hsVars, curVars, sendVars>>

\* add_connection(cnx=None), called by a running coroutine.
AddConnection(t) ==
    /\ pc[t] = "idle"
    /\ CanAcquire(t)
    /\ IF cnx_config = 0 \/ Len(cnx_queue) >= PoolSize
       THEN /\ UNCHANGED <<cnx_queue, conns>>
            /\ Done("add_connection", 0, EPool)
       ELSE /\ \E c \in ConnIds : ~conns[c].made
            /\ LET c == CHOOSE i \in ConnIds :
                          ~conns[i].made /\ \A j \in ConnIds : ~conns[j].made => i <= j
               IN  /\ conns' = [conns EXCEPT ![c] = NewConn(cnx_config, config_version)]
                   /\ cnx_queue' = QueueConnection(cnx_queue, c)
                   /\ Done("add_connection", c, "")
    /\ UNCHANGED <<cnx_config, config_version, leased, lock_count, lock_owner, pc,
                   tcnx>>
    /\ UNCHANGED <<connVars, netVars, hsVars, curVars, sendVars>>

\* close() of a lease as it would be if the lease kept its connection after
\* handing it to add_connection.
ReleaseKeepsLease(t, c) ==
    /\ pc[t] = "idle"
    /\ CanAcquire(t)
    /\ leased[c] > 0
    /\ IF cnx_config = 0 \/ Len(cnx_queue) >= PoolSize
       THEN /\ UNCHANGED <<cnx_queue, leased>>
            /\ Done("release", c, EPool)
       ELSE /\ cnx_queue' = QueueConnection(cnx_queue, c)
            /\ UNCHANGED leased
            /\ Done("release", c, "")
    /\ UNCHANGED <<cnx_config, config_version, conns, lock_count, lock_owner, pc,
                   tcnx>>
    /\ UNCHANGED <<connVars, netVars, hsVars, curVars, sendVars>>

\* PooledMySQLConnection.close() of a lease on connection c: the library
\* calls pool.add_connection(cnx) and drops its reference when that returns.
Release(t, c) ==
    /\ pc[t] = "idle"
    /\ CanAcquire(t)
    /\ leased[c] > 0
    /\ IF cnx_config = 0 \/ Len(cnx_queue) >= PoolSize
       THEN /\ UNCHANGED <<cnx_queue, leased>>
            /\ Done("release", c, EPool)
       ELSE /\ cnx_queue' = QueueConnection(cnx_queue, c)
            /\ leased' = [leased EXCEPT ![c] = @ - 1]
            /\ Done("release", c, "")
    /\ UNCHANGED <<cnx_config, config_version, conns, lock_count, lock_owner, pc,
                   tcnx>>
    /\ UNCHANGED <<connVars, netVars, hsVars, curVars, sendVars>>

\* set_config(**kwargs) with kwargs not empty; `valid` says whether
\* AioMySQLConnection.config() accepts them.
SetConfig(t, valid) ==
    /\ pc[t] = "idle"
    /\ CanAcquire(t)
    /\ config_version < MaxConfigs
    /\ IF valid
       THEN /\ cnx_config' = config_version + 1
            /\ config_version' = config_version + 1
            /\ Done("set_config", 0, "")
       ELSE /\ UNCHANGED <<cnx_config, config_version>>
            /\ Done("set_config", 0, EPool)
    /\ UNCHANGED <<cnx_queue, conns, leased, lock_count, lock_owner, pc, tcnx>>
    /\ UNCHANGED <<connVars, netVars, hsVars, curVars, sendVars>>

\* The server, or the network, closes the session of connection c.
PoolServerDrop(c) ==
    /\ conns[c].sock = "open"
    /\ conns' = [conns EXCEPT ![c].sock = "dead"]
    /\ UNCHANGED <<cnx_config, config_version, cnx_queue, leased, lock_count,
                   lock_owner, pc, tcnx, plast>>
    /\ UNCHANGED <<connVars, netVars, hsVars, curVars, sendVars>>

\* MySQLConPool(pool_size=PoolSize): no configuration, an empty queue. (With
\* keyword arguments the constructor goes on to call set_config() and then
\* add_connection() PoolSize times, as the actions below do.)
PoolInit ==
    /\ cnx_config = 0
    /\ config_version = 0
    /\ cnx_queue = <<>>
    /\ conns = [c \in ConnIds |-> NoConn]
    /\ leased = [c \in ConnIds |-> 0]
    /\ lock_count = 0
    /\ lock_owner = "none"
    /\ pc = [t \in Tasks |-> "idle"]
    /\ tcnx = [t \in Tasks |-> 0]
    /\ plast = [op |-> "init", cnx |-> 0, exc |-> ""]

PoolNext ==
    \/ \E t \in Tasks : GetConnectionStart(t)
    \/ \E t \in Tasks : GetConnectionPinged(t)
    \/ \E t \in Tasks : GetConnectionReconnected(t)
    \/ \E t \in Tasks : GetConnectionCancelled(t)
    \/ \E t \in Tasks : AddConnection(t)
    \/ \E t \in Tasks, c \in ConnIds : Release(t, c)
    \/ \E t \in Tasks, valid \in BOOLEAN : SetConfig(t, valid)
    \/ \E c \in ConnIds : PoolServerDrop(c)

\* =====================================================================
\*                     BaseMySQLSocket (network.py)
\* =====================================================================

\* constants.MAX_PACKET_LENGTH is 2^24 - 1 bytes; the socket is modelled with
\* packets of at most MaxPktLen bytes, so that payloads of one, two and more
\* packets are small sequences. A packet whose length field is MaxPktLen is
\* the one whose header starts with ff ff ff.
MaxPktLen == 2
\* The longest payload given to send(): two full packets and one byte more.
MaxPayload == 2 * MaxPktLen + 1

\* The largest number struct.pack('<B', ...) and the header's fourth byte hold.
MaxSeq == 255
\* First byte of an EOF packet's payload.
EofByte == 254

EStruct == "struct.error: ubyte format requires 0 <= number <= 255"
EIncompleteRead == "IncompleteReadError"
ELost == "InterfaceError: 2013 Lost connection to MySQL server during query"
EIndex == "IndexError: bytearray index out of range"

\* The bytes of a payload: an ordinary one and the one that opens an EOF packet.
Bytes == {1, EofByte}

RECURSIVE SeqsUpTo(_, _)
SeqsUpTo(S, n) ==
    IF n = 0 THEN {<<>>}
    ELSE LET shorter == SeqsUpTo(S, n - 1)
         IN  shorter \cup {Append(q, b) : q \in shorter, b \in S}

Payloads == SeqsUpTo(Bytes, MaxPayload)
\* The payloads the server sends: up to one full packet and one byte more.
ServerPayloads == SeqsUpTo(Bytes, MaxPktLen + 1)

\* packet_number=None
NoNumber == -1
\* The numbers an exchange starts a payload with: those it reaches counting
\* from 0 up to MaxRun, and the last one before the wrap.
MaxRun == 1
Numbered(n) == n <= MaxRun \/ n = MaxSeq
\* The packet_number arguments given to send().
GivenNumbers == {NoNumber, 0, MaxSeq}

\* A packet on the stream: the length and the number of its header and the
\* payload bytes that follow it (fewer than `len` when the stream ends early).
NetPkt(n, s, p) == [len |-> n, seq |-> s, payload |-> p]
NoNetPkt == NetPkt(0, NoNumber, <<>>)

\* _prepare_packets(buf, pktnr); `pkts` is its local list.
RECURSIVE PreparePackets(_, _, _)
PreparePackets(buf, pktnr, pkts) ==
    IF pktnr > MaxSeq THEN [exc |-> EStruct, pkts |-> <<>>]
    ELSE IF Len(buf) > MaxPktLen
         THEN PreparePackets(SubSeq(buf, MaxPktLen + 1, Len(buf)), pktnr + 1,
                             Append(pkts, NetPkt(MaxPktLen, pktnr,
                                                 SubSeq(buf, 1, MaxPktLen))))
         ELSE [exc |-> "", pkts |-> Append(pkts, NetPkt(Len(buf), pktnr, buf))]

\* The property next_packet_number.
NextPacketNumber(pn) == IF pn + 1 > MaxSeq THEN 0 ELSE pn + 1

\* The socket as its methods see it.
Sock == [pn |-> packet_number, inbox |-> inbox, closed |-> closed, nread |-> 0]

\* recv_plain(): the four bytes of the header, then the payload.
RecvPlainOp(s) ==
    IF s.inbox = <<>>
    THEN [s |-> s, exc |-> IF s.closed THEN EIncompleteRead ELSE EBlocked,
          pkt |-> NoNetPkt]
    ELSE LET p == Head(s.inbox)
             n == [s EXCEPT !.pn = p.seq, !.inbox = Tail(@), !.nread = @ + 1]
         IN  IF Len(p.payload) < p.len
             THEN [s |-> n, exc |-> IF s.closed THEN ELost ELSE EBlocked,
                   pkt |-> NoNetPkt]
             ELSE [s |-> n, exc |-> "", pkt |-> p]

\* The outcome of one turn of read_text_result's loop.
Row(s, exc, data, eof) == [s |-> s, exc |-> exc, data |-> data, eof |-> eof]

\* read_text_result: the inner while loop and what follows it; `r` is the
\* recv() just made and `datas` the payloads collected.
RECURSIVE ReadFragments(_, _)
ReadFragments(r, datas) ==
    IF r.exc # "" THEN Row(r.s, r.exc, <<>>, FALSE)
    ELSE IF r.pkt.len = MaxPktLen
         THEN ReadFragments(RecvPlainOp(r.s), datas \o r.pkt.payload)
    ELSE IF r.pkt.payload = <<>> THEN Row(r.s, EIndex, <<>>, FALSE)
    ELSE IF Head(r.pkt.payload) = EofByte THEN Row(r.s, "", <<>>, TRUE)
    ELSE Row(r.s, "", datas \o r.pkt.payload, FALSE)

\* read_text_result(sock, count=1): one turn of its loop.
ReadTextRow(s) ==
    LET r == RecvPlainOp(s)
    IN  IF r.exc # "" THEN Row(r.s, r.exc, <<>>, FALSE)
        ELSE IF r.pkt.len = MaxPktLen
             THEN ReadFragments(RecvPlainOp(r.s), r.pkt.payload)
        ELSE IF r.pkt.payload = <<>> THEN Row(r.s, EIndex, <<>>, FALSE)
        ELSE IF Head(r.pkt.payload) = EofByte THEN Row(r.s, "", <<>>, TRUE)
        ELSE Row(r.s, "", r.pkt.payload, FALSE)

\* The packets a server makes of one payload: full packets while MaxPktLen
\* bytes or more remain, then one shorter packet.
RECURSIVE ServerPackets(_, _)
ServerPackets(buf, s) ==
    IF Len(buf) >= MaxPktLen
    THEN <<NetPkt(MaxPktLen, s, SubSeq(buf, 1, MaxPktLen))>>
         \o ServerPackets(SubSeq(buf, MaxPktLen + 1, Len(buf)), (s + 1) % (MaxSeq + 1))
    ELSE <<NetPkt(Len(buf), s, buf)>>

\* No payload has been sent back.
NoEcho == [on |-> FALSE, buf |-> <<>>, n |-> 0]

\* The record of a call on the socket.
NetCall(op, buf, exc, pkts, data, eof, nread) ==
    [op |-> op, buf |-> buf, exc |-> exc, pkts |-> pkts,
     expected |-> IF op = "recv" THEN NextPacketNumber(packet_number) ELSE NoNumber,
     data |-> data, eof |-> eof, nread |-> nread, echo |-> echo,
     buflen |-> Len(buf)]

\* ------------------------------------------------- send_compressed

\* constants.MAX_PACKET_LENGTH. send_compressed is modelled on the lengths of
\* its buffers, which zlib does not look into, and keeps the real lengths.
MAX_PACKET_LENGTH == 16777215
\* The packet length above which send_compressed compresses.
MinCompress == 50
\* Bytes of a packet header: three of length, one of number.
HeaderLen == 4
\* Bytes of the first compressed packet of a long buffer.
FirstZipLen == 16384

\* The lengths of the buffers given to send_compressed: around the 50 bytes,
\* and one, and more than one, maximum packet.
CompressLens ==
    (MinCompress - 2 * HeaderLen)..(MinCompress + 1)
    \cup {MAX_PACKET_LENGTH, MAX_PACKET_LENGTH + 1, 2 * MAX_PACKET_LENGTH}

\* A compressed-protocol packet: its number, whether its payload went through
\* zlib.compress, its uncompressed-length field, and the bytes it carries.
ZipPkt(seqid, zipped, ulen, covers) ==
    [seq |-> seqid, zipped |-> zipped, ulen |-> ulen, covers |-> covers]

\* len(b''.join(_prepare_packets(buf, pktnr))) for a buffer of n bytes: one
\* header for each packet.
RECURSIVE PreparedLen(_, _)
PreparedLen(n, pktnr) ==
    IF pktnr > MaxSeq THEN -1
    ELSE IF n > MAX_PACKET_LENGTH
         THEN LET rest == PreparedLen(n - MAX_PACKET_LENGTH, pktnr + 1)
              IN  IF rest < 0 THEN -1 ELSE HeaderLen + MAX_PACKET_LENGTH + rest
         ELSE HeaderLen + n

\* send_compressed: the while loop over tmpbuf and the packet after it.
RECURSIVE ZipRest(_, _, _)
ZipRest(pllen, seqid, zpkts) ==
    IF pllen > MAX_PACKET_LENGTH
    THEN ZipRest(pllen - MAX_PACKET_LENGTH, seqid + 1,
                 Append(zpkts, ZipPkt(seqid, TRUE, MAX_PACKET_LENGTH, MAX_PACKET_LENGTH)))
    ELSE IF pllen > 0 THEN Append(zpkts, ZipPkt(seqid, TRUE, pllen, pllen))
    ELSE zpkts

\* send_compressed(buf, packet_number) for len(buf) = n and the packet number
\* pktnr it has settled on: the packets it gives to the writer.
SendCompressedThreshold(n, pktnr) ==
    IF n > MAX_PACKET_LENGTH
    THEN LET tmplen == PreparedLen(n, pktnr)
         IN  IF tmplen < 0 THEN [exc |-> EStruct, pkts |-> <<>>]
             ELSE [exc |-> "",
                   pkts |-> ZipRest(tmplen - FirstZipLen, 1,
                                    <<ZipPkt(0, TRUE, FirstZipLen, FirstZipLen)>>)]
    ELSE IF pktnr > MaxSeq THEN [exc |-> EStruct, pkts |-> <<>>]
    ELSE IF n > MinCompress
         THEN [exc |-> "", pkts |-> <<ZipPkt(0, TRUE, n + HeaderLen, n + HeaderLen)>>]
         ELSE [exc |-> "", pkts |-> <<ZipPkt(0, FALSE, 0, n + HeaderLen)>>]

SendCompressedOp(n, pktnr) ==
    IF n > MAX_PACKET_LENGTH
    THEN LET tmplen == PreparedLen(n, pktnr)
         IN  IF tmplen < 0 THEN [exc |-> EStruct, pkts |-> <<>>]
             ELSE [exc |-> "",
                   pkts |-> ZipRest(tmplen - FirstZipLen, 1,
                                    <<ZipPkt(0, TRUE, FirstZipLen, FirstZipLen)>>)]
    ELSE IF pktnr > MaxSeq THEN [exc |-> EStruct, pkts |-> <<>>]
    ELSE LET pllen == HeaderLen + n
         IN  IF pllen > MinCompress
             THEN [exc |-> "", pkts |-> <<ZipPkt(0, TRUE, pllen, pllen)>>]
             ELSE [exc |-> "", pkts |-> <<ZipPkt(0, FALSE, 0, pllen)>>]

\* ------------------------------------------------- NetSpec: actions

\* open_connection() of a new socket object.
OpenConnection ==
    /\ closed
    /\ packet_number' = -1
    /\ written' = <<>>
    /\ inbox' = <<>>
    /\ closed' = FALSE
    /\ writer' = "open"
    /\ echo' = NoEcho
    /\ nlast' = NetCall("open_connection", <<>>, "", <<>>, <<>>, FALSE, 0)
    /\ UNCHANGED <<connVars, poolVars, hsVars, curVars, sendVars>>

\* The body of shutdown() and of close_connection() on _writer w:
\* `if not self._writer: self._writer.close()`. With no writer the call of
\* close() on None raises AttributeError, which the except clause drops;
\* with a writer the branch is not taken.
CloseWriter(w) == IF w = "none" THEN "none" ELSE w

\* shutdown().
Shutdown ==
    /\ writer' = CloseWriter(writer)
    /\ nlast' = NetCall("shutdown", <<>>, "", <<>>, <<>>, FALSE, 0)
    /\ UNCHANGED <<packet_number, written, inbox, closed, echo>>
    /\ UNCHANGED <<connVars, poolVars, hsVars, curVars, sendVars>>

\* close_connection().
CloseConnection ==
    /\ writer' = CloseWriter(writer)
    /\ nlast' = NetCall("close_connection", <<>>, "", <<>>, <<>>, FALSE, 0)
    /\ UNCHANGED <<packet_number, written, inbox, closed, echo>>
    /\ UNCHANGED <<connVars, poolVars, hsVars, curVars, sendVars>>

\* send_plain(buf, packet_number), called when the stream is open and the
\* reply to what was sent before has been read.
SendPlain ==
    /\ inbox = <<>>
    /\ ~closed
    /\ writer = "open"
    /\ \E buf \in Payloads, given \in GivenNumbers :
        LET pn == IF given = NoNumber THEN NextPacketNumber(packet_number) ELSE given
            r == PreparePackets(buf, pn, <<>>)
        IN  /\ Numbered(pn)
            /\ packet_number' = pn
            /\ written' = r.pkts
            /\ nlast' = NetCall("send", buf, r.exc, r.pkts, <<>>, FALSE, 0)
            /\ UNCHANGED <<inbox, closed, echo>>
            /\ UNCHANGED <<connVars, poolVars, hsVars, curVars, sendVars, writer>>

\* send_compressed(buf, packet_number) with len(buf) = n.
SendCompressed ==
    /\ inbox = <<>>
    /\ ~closed
    /\ writer = "open"
    /\ \E n \in CompressLens, given \in GivenNumbers :
        LET pn == IF given = NoNumber THEN NextPacketNumber(packet_number) ELSE given
            r == SendCompressedOp(n, pn)
        IN  /\ Numbered(pn)
            /\ packet_number' = pn
            /\ written' = r.pkts
            /\ nlast' = [NetCall("send_compressed", <<>>, r.exc, r.pkts, <<>>, FALSE, 0)
                             EXCEPT !.buflen = n]
            /\ UNCHANGED <<inbox, closed, echo>>
            /\ UNCHANGED <<connVars, poolVars, hsVars, curVars, sendVars, writer>>

\* recv_plain().
RecvPlain ==
    LET r == RecvPlainOp(Sock)
    IN  /\ r.exc # EBlocked
        /\ packet_number' = r.s.pn
        /\ inbox' = r.s.inbox
        /\ echo' = NoEcho
        /\ nlast' = NetCall("recv", <<>>, r.exc, <<r.pkt>>, r.pkt.payload, FALSE,
                            r.s.nread)
        /\ UNCHANGED <<written, closed>>
        /\ UNCHANGED <<connVars, poolVars, hsVars, curVars, sendVars, writer>>

\* One row read by read_text_result.
ReadRow ==
    LET r == ReadTextRow(Sock)
    IN  /\ r.exc # EBlocked
        /\ packet_number' = r.s.pn
        /\ inbox' = r.s.inbox
        /\ echo' = NoEcho
        /\ nlast' = NetCall("read_row", <<>>, r.exc, <<>>, r.data, r.eof, r.s.nread)
        /\ UNCHANGED <<written, closed>>
        /\ UNCHANGED <<connVars, poolVars, hsVars, curVars, sendVars, writer>>

\* The server has read what the client wrote and sends one payload in packets
\* numbered from `s`, the number the client expects next or another one.
ServerSends ==
    /\ inbox = <<>>
    /\ ~closed
    /\ \E buf \in ServerPayloads, s \in {NextPacketNumber(packet_number), MaxSeq} :
           /\ Numbered(s)
           /\ inbox' = ServerPackets(buf, s)
    /\ written' = <<>>
    /\ echo' = NoEcho
    /\ UNCHANGED <<packet_number, closed, nlast>>
    /\ UNCHANGED <<connVars, poolVars, hsVars, curVars, sendVars, writer>>

\* The peer sends back the packets of the last send() as it got them, and
\* then, or not, the EOF packet of the result.
Loopback ==
    /\ inbox = <<>>
    /\ ~closed
    /\ nlast.op = "send"
    /\ written # <<>>
    /\ \E next \in {<<>>, <<NetPkt(1, NextPacketNumber(written[Len(written)].seq),
                                  <<EofByte>>)>>} :
           inbox' = written \o next
    /\ echo' = [on |-> TRUE, buf |-> nlast.buf, n |-> Len(written)]
    /\ written' = <<>>
    /\ UNCHANGED <<packet_number, closed, nlast>>
    /\ UNCHANGED <<connVars, poolVars, hsVars, curVars, sendVars, writer>>

\* The peer closes the stream; the last packet it wrote may have lost the
\* end of its payload.
ServerCloses ==
    /\ ~closed
    /\ closed' = TRUE
    /\ \/ UNCHANGED inbox
       \/ /\ inbox # <<>>
          /\ inbox[Len(inbox)].payload # <<>>
          /\ inbox' = [inbox EXCEPT ![Len(inbox)].payload = SubSeq(@, 1, Len(@) - 1)]
    /\ UNCHANGED <<packet_number, written, echo, nlast>>
    /\ UNCHANGED <<connVars, poolVars, hsVars, curVars, sendVars, writer>>

NetInit ==
    /\ packet_number = -1
    /\ written = <<>>
    /\ inbox = <<>>
    /\ closed = FALSE
    /\ writer = "open"
    /\ echo = NoEcho
    /\ nlast = [op |-> "init", buf |-> <<>>, exc |-> "", pkts |-> <<>>,
                expected |-> NoNumber,
                data |-> <<>>, eof |-> FALSE, nread |-> 0, echo |-> NoEcho,
                buflen |-> 0]

NetNext ==
    \/ OpenConnection
    \/ SendPlain
    \/ SendCompressed
    \/ RecvPlain
    \/ ReadRow
    \/ ServerSends
    \/ Loopback
    \/ ServerCloses
    \/ Shutdown
    \/ CloseConnection

\* =====================================================================
\*          connect(): handshake and authentication (connection.py)
\* =====================================================================

\* Longest server version text of a greeting, in characters.
MaxVersionLen == 6
\* First byte of an error packet's payload.
ErrByte == 255

\* The characters of a version text: three digits, the dot, and "f", which
\* stands for the word fabric in any case.
DigitVal == ("0" :> 0) @@ ("1" :> 1) @@ ("4" :> 4)
Chars == DOMAIN DigitVal \cup {".", "f"}
VersionTexts == SeqsUpTo(Chars, MaxVersionLen)

\* The greetings a server sends: an error packet, a packet parse_handshake
\* cannot parse, and handshake packets with a server version text.
Greeting(b, w, t) == [b0 |-> b, wellformed |-> w, text |-> t]
NoGreeting == Greeting(0, FALSE, <<>>)
Greetings ==
    {Greeting(ErrByte, FALSE, <<>>), Greeting(10, FALSE, <<>>)}
    \cup {Greeting(10, TRUE, t) : t \in VersionTexts}

IsDigit(ch) == ch \in DOMAIN DigitVal

\* The digits \d{1,max} takes at the head of s.
RECURSIVE DigitRun(_, _)
DigitRun(s, max) ==
    IF max = 0 \/ s = <<>> \/ ~IsDigit(Head(s)) THEN 0
    ELSE 1 + DigitRun(Tail(s), max - 1)

\* int(v) of a string of digits.
RECURSIVE ToInt(_, _)
ToInt(s, acc) == IF s = <<>> THEN acc ELSE ToInt(Tail(s), acc * 10 + DigitVal[Head(s)])

Drop(s, n) == SubSeq(s, n + 1, Len(s))

NoMatch == [ok |-> FALSE, version |-> <<>>, rest |-> <<>>]

\* regex_ver.match(text) for ^(\d{1,2})\.(\d{1,2})\.(\d{1,3})(.*): the three
\* numbers as integers and group 4.
RegexVer(s) ==
    LET n1 == DigitRun(s, 2)
        r1 == Drop(s, n1)
    IN  IF n1 = 0 \/ r1 = <<>> \/ Head(r1) # "." THEN NoMatch
        ELSE LET s2 == Tail(r1)
                 n2 == DigitRun(s2, 2)
                 r2 == Drop(s2, n2)
             IN  IF n2 = 0 \/ r2 = <<>> \/ Head(r2) # "." THEN NoMatch
                 ELSE LET s3 == Tail(r2)
                          n3 == DigitRun(s3, 3)
                      IN  IF n3 = 0 THEN NoMatch
                          ELSE [ok |-> TRUE,
                                version |-> <<ToInt(SubSeq(s, 1, n1), 0),
                                              ToInt(SubSeq(s2, 1, n2), 0),
                                              ToInt(SubSeq(s3, 1, n3), 0)>>,
                                rest |-> Drop(s3, n3)]

\* version < (a, b) for a tuple of three numbers, as Python orders tuples.
VersionBelow(version, a, b) ==
    version[1] < a \/ (version[1] = a /\ version[2] < b)

\* _do_handshake() as it would be without the test for Fabric.
DoHandshakeNoFabric(g) ==
    IF g.b0 = ErrByte THEN [exc |-> EDatabase, version |-> <<>>]
    ELSE IF ~g.wellformed THEN [exc |-> EInterface, version |-> <<>>]
    ELSE LET match == RegexVer(g.text)
         IN  IF ~match.ok THEN [exc |-> EInterface, version |-> <<>>]
             ELSE IF VersionBelow(match.version, 4, 1)
                  THEN [exc |-> EInterface, version |-> <<>>]
             ELSE [exc |-> "", version |-> match.version]

\* _do_handshake() on the greeting g that recv() returned.
DoHandshakeOp(g) ==
    IF g.b0 = ErrByte THEN [exc |-> EDatabase, version |-> <<>>]
    ELSE IF ~g.wellformed THEN [exc |-> EInterface, version |-> <<>>]
    ELSE LET match == RegexVer(g.text)
         IN  IF ~match.ok THEN [exc |-> EInterface, version |-> <<>>]
             ELSE IF "f" \in Range(match.rest)
                  THEN IF VersionBelow(match.version, 1, 4)
                       THEN [exc |-> EInterface, version |-> <<>>]
                       ELSE [exc |-> "", version |-> match.version]
             ELSE IF VersionBelow(match.version, 4, 1)
                  THEN [exc |-> EInterface, version |-> <<>>]
             ELSE [exc |-> "", version |-> match.version]

\* The packets of the server during authentication, by their first byte and
\* length: OK (0), ERR (255), the old-password sentinel (254 in a packet of 5
\* bytes), an AuthSwitchRequest (254 in a longer packet), auth-more-data (1),
\* and any other packet.
AuthPackets == {"ok", "err", "old_password", "switch", "more_data", "other"}
\* AuthSwitchRequests a server sends in a row.
MaxSwitches == 2

SwitchRun(n) == [i \in 1..n |-> "switch"]

\* What the server sends while the client answers each of its requests: some
\* AuthSwitchRequests, then a packet that is none.
AuthReplies ==
    {SwitchRun(n) \o <<p>> : n \in 0..MaxSwitches, p \in AuthPackets \ {"switch"}}

\* How _do_auth() ends: the exception, the packets written and read, and
\* whether the server has accepted the client.
AuthOutcome(exc, sent, nread, accepted) ==
    [exc |-> exc, sent |-> sent, nread |-> nread, srv_auth |-> accepted]

\* _auth_switch_request: the packet p read after the answer to the
\* AuthSwitchRequest; _handle_ok unless it is auth-more-data.
AfterSwitch(p) ==
    IF p = "more_data" THEN AuthOutcome("", 2, 2, FALSE)
    ELSE IF p = "ok" THEN AuthOutcome("", 2, 2, TRUE)
    ELSE IF p = "err" THEN AuthOutcome(EDatabase, 2, 2, FALSE)
    ELSE AuthOutcome(EInterface, 2, 2, FALSE)

\* _do_auth() as it would be without the test for the old-password sentinel.
DoAuthOldPasswordPasses(replies) ==
    IF replies[1] = "switch" THEN AfterSwitch(replies[2])
    ELSE IF replies[1] = "err" THEN AuthOutcome(EDatabase, 1, 1, FALSE)
    ELSE AuthOutcome("", 1, 1, replies[1] = "ok")

\* _auth_switch_request as it would be if it answered every AuthSwitchRequest
\* in a loop; k packets have been read and answered.
RECURSIVE SwitchLoop(_, _)
SwitchLoop(replies, k) ==
    LET p == replies[k + 1]
    IN  IF p = "switch" THEN SwitchLoop(replies, k + 1)
        ELSE IF p = "more_data" THEN AuthOutcome("", k + 1, k + 1, FALSE)
        ELSE IF p = "ok" THEN AuthOutcome("", k + 1, k + 1, TRUE)
        ELSE IF p = "err" THEN AuthOutcome(EDatabase, k + 1, k + 1, FALSE)
        ELSE AuthOutcome(EInterface, k + 1, k + 1, FALSE)

DoAuthLooping(replies) ==
    IF replies[1] = "old_password" THEN AuthOutcome(ENotSupported, 1, 1, FALSE)
    ELSE IF replies[1] = "switch" THEN SwitchLoop(replies, 1)
    ELSE IF replies[1] = "err" THEN AuthOutcome(EDatabase, 1, 1, FALSE)
    ELSE AuthOutcome("", 1, 1, replies[1] = "ok")

\* _do_auth() without SSL and without a database to select: the
\* authentication packet, then _auth_switch_request() on the server's
\* packets. A first packet that is neither 254 nor 255 matches no branch and
\* _auth_switch_request returns.
DoAuthOp(replies) ==
    IF replies[1] = "old_password" THEN AuthOutcome(ENotSupported, 1, 1, FALSE)
    ELSE IF replies[1] = "switch" THEN AfterSwitch(replies[2])
    ELSE IF replies[1] = "err" THEN AuthOutcome(EDatabase, 1, 1, FALSE)
    ELSE AuthOutcome("", 1, 1, replies[1] = "ok")

\* connect() as it would be if it went on after a step that raised.
AfterStepIgnoring(exc, next) == next

\* Where connect() stands after a step that ended with `exc`: at the step
\* `next`, or ended by the exception.
AfterStep(exc, next) == IF exc # "" THEN "Disconnected" ELSE next

\* The record of a step of connect() or of a command.
HsCall(op, exc, g, sent) ==
    [op |-> op, exc |-> exc, greeting |-> g, sent |-> sent, replies |-> <<>>,
     nread |-> 0]

\* ------------------------------------------------- HandshakeSpec: actions

\* connect() is called: disconnect(), then _get_connection() makes a new
\* socket object.
ConnectStart ==
    /\ phase \in {"Disconnected", "Ready"}
    /\ phase' = "Connecting"
    /\ stream' = "unopened"
    /\ greeting' = NoGreeting
    /\ auth_sent' = 0
    /\ srv_auth' = FALSE
    /\ hlast' = HsCall("connect", "", NoGreeting, 0)
    /\ UNCHANGED <<srv_greeting, hs_version>>
    /\ UNCHANGED <<connVars, poolVars, netVars, curVars, sendVars>>

\* self._socket.open_connection(): the stream opens and the server's greeting
\* arrives, or InterfaceError.
OpenStream ==
    /\ phase = "Connecting"
    /\ \/ /\ phase' = AfterStep(EInterface, "Handshaking")
          /\ hlast' = HsCall("open_connection", EInterface, NoGreeting, 0)
          /\ UNCHANGED <<stream, greeting>>
       \/ /\ phase' = AfterStep("", "Handshaking")
          /\ stream' = "open"
          /\ greeting' = srv_greeting
          /\ hlast' = HsCall("open_connection", "", NoGreeting, 0)
    /\ UNCHANGED <<srv_greeting, hs_version, auth_sent, srv_auth>>
    /\ UNCHANGED <<connVars, poolVars, netVars, curVars, sendVars>>

\* _do_handshake(). A server that greets with an error closes the stream.
DoHandshake ==
    /\ phase = "Handshaking"
    /\ LET r == DoHandshakeOp(greeting)
       IN  /\ phase' = AfterStep(r.exc, "Authenticating")
           /\ hs_version' = IF r.exc = "" THEN r.version ELSE hs_version
           /\ hlast' = HsCall("handshake", r.exc, greeting, 0)
    /\ stream' = IF greeting.b0 = ErrByte THEN "closed" ELSE stream
    /\ greeting' = NoGreeting
    /\ UNCHANGED <<srv_greeting, auth_sent, srv_auth>>
    /\ UNCHANGED <<connVars, poolVars, netVars, curVars, sendVars>>

\* _do_auth(), and the rest of connect() after it, which sends nothing.
DoAuth ==
    /\ phase = "Authenticating"
    /\ \E reply \in AuthReplies :
        LET r == DoAuthOp(reply)
        IN  /\ phase' = AfterStep(r.exc, "Ready")
            /\ auth_sent' = auth_sent + r.sent
            /\ srv_auth' = r.srv_auth
            /\ hlast' = [HsCall("auth", r.exc, NoGreeting, r.sent)
                             EXCEPT !.replies = reply, !.nread = r.nread]
    /\ UNCHANGED <<stream, srv_greeting, greeting, hs_version>>
    /\ UNCHANGED <<connVars, poolVars, netVars, curVars, sendVars>>

\* cmd_ping() while no connect() is running. The server answers OK to a
\* client it has authenticated and an error to any other.
HsPing ==
    /\ phase \in {"Disconnected", "Ready"}
    /\ hlast' = HsCall("cmd_ping",
                       IF stream \in {"none", "unopened"} THEN EOperational
                       ELSE IF stream = "closed" THEN EConnLost
                       ELSE IF srv_auth THEN "" ELSE EDatabase,
                       NoGreeting, 0)
    /\ UNCHANGED <<phase, stream, srv_greeting, greeting, hs_version, auth_sent,
                   srv_auth>>
    /\ UNCHANGED <<connVars, poolVars, netVars, curVars, sendVars>>

\* The server closes the stream of a connection no connect() is running on.
StreamDrop ==
    /\ phase \in {"Disconnected", "Ready"}
    /\ stream = "open"
    /\ stream' = "closed"
    /\ srv_auth' = FALSE
    /\ UNCHANGED <<phase, srv_greeting, greeting, hs_version, auth_sent, hlast>>
    /\ UNCHANGED <<connVars, poolVars, netVars, curVars, sendVars>>

\* A connection no connect() has been called on.
HsStart ==
    /\ phase = "Disconnected"
    /\ stream = "none"
    /\ greeting = NoGreeting
    /\ hs_version = <<>>
    /\ auth_sent = 0
    /\ srv_auth = FALSE
    /\ hlast = HsCall("init", "", NoGreeting, 0)

\* The connection, where its server's greeting is of no concern.
HsInit == HsStart /\ srv_greeting = NoGreeting

HsNext ==
    \/ ConnectStart
    \/ OpenStream
    \/ DoHandshake
    \/ DoAuth
    \/ HsPing
    \/ StreamDrop

\* =====================================================================
\*        AioMySQLCursor and AioMySQLCursorPrepared (cursor.py)
\* =====================================================================

\* Statements one execute(multi=True) carries (1..MaxStmts).
MaxStmts == 2
\* Packets that may wait unread on the socket in CursorSpec.
MaxCurWire == 6
\* Sessions the connection opens in CursorSpec.
MaxSessions == 2
\* Operations given to the prepared cursor (1..MaxOps).
MaxOps == 2

\* _executed: None, the whole text given to execute(), or its i-th statement.
NoStmt == -1
WholeText == 0

EListIndex == "IndexError: list index out of range"
ENoResultSet == "InterfaceError: No result set to fetch from."

\* What one statement of a multi-statement query makes the server write: an
\* OK packet, a result set, an error, or, for the CALL of a procedure that
\* selects, a result set followed by the OK packet of the CALL.
StmtKinds == {"ok", "rows", "err", "call"}

StmtResult(i, k) == [stmt |-> i, kind |-> k]

\* The results the server produces for statements i.. of `kinds`: it stops at
\* the first statement that fails.
RECURSIVE MultiResults(_, _)
MultiResults(kinds, i) ==
    IF i > Len(kinds) THEN <<>>
    ELSE IF kinds[i] = "err" THEN <<StmtResult(i, "err")>>
    ELSE IF kinds[i] = "call"
         THEN <<StmtResult(i, "rows"), StmtResult(i, "ok")>>
              \o MultiResults(kinds, i + 1)
    ELSE <<StmtResult(i, kinds[i])>> \o MultiResults(kinds, i + 1)

\* The packets of results j.. : every result but the last is flagged
\* more-results.
RECURSIVE MultiResponse(_, _)
MultiResponse(rs, j) ==
    IF j > Len(rs) THEN <<>>
    ELSE (IF rs[j].kind = "ok" THEN <<OkPkt(j < Len(rs))>>
          ELSE IF rs[j].kind = "rows" THEN TextResultSet(0, j < Len(rs))
          ELSE <<ErrPkt>>)
         \o MultiResponse(rs, j + 1)

Has(seq, x) == \E i \in 1..Len(seq) : seq[i] = x

\* The cursor's fields after a call, with how the call ended.
CurOut(r, list, ex) == [r |-> r, list |-> list, executed |-> ex]

\* AioMySQLCursor._handle_result on what the connection returned: a dict with
\* 'columns', a dict with 'affected_rows', or any other dict.
CursorHandleResult(r) ==
    IF r.ret = "columns" THEN Return([r.c EXCEPT !.unread = TRUE], "columns")
    ELSE IF r.ret = "ok" THEN Return([r.c EXCEPT !.unread = FALSE], "ok")
    ELSE Raise(r.c, EInterface)

\* _execute_many(query_first): _executed is the first statement when
\* _handle_result runs.
ExecuteMany(r, list) ==
    IF r.exc # "" THEN CurOut(r, list, WholeText)
    ELSE CurOut(CursorHandleResult(r), list, list[1])

\* execute(operation, multi=True), `operation` holding n statements.
CursorExecuteMultiOp(c, cur, n, resp) ==
    IF c.unread THEN CurOut(Raise(c, EUnread), cur.list, cur.executed)
    ELSE ExecuteMany(CmdQueryManyOp(c, resp), [i \in 1..n |-> i])

\* next_exec_result() after _handle_result(rd) has ended as h:
\* `self._executed_list[1:]` of a list of one statement is empty, and
\* `self._executed_list[0]` of it raises IndexError.
NextStatement(h, cur) ==
    IF h.exc # "" THEN CurOut(h, cur.list, NoStmt)
    ELSE IF Len(cur.list) < 2 THEN CurOut(Raise(h.c, EListIndex), <<>>, NoStmt)
    ELSE CurOut(Return(h.c, "True"), Tail(cur.list), cur.list[2])

\* next_exec_result() after next_result() has ended as r.
AfterNextResult(r, cur) ==
    IF r.exc # "" THEN CurOut(r, cur.list, cur.executed)
    ELSE IF r.ret = "None" THEN CurOut(Return(r.c, "False"), <<>>, cur.executed)
    ELSE NextStatement(CursorHandleResult(r), cur)

NextExecResultOp(c, cur) == AfterNextResult(NextResultOp(c), cur)

\* _handle_eof: the result is read.
CursorHandleEof(r) ==
    IF r.exc # "" THEN r ELSE [r EXCEPT !.c = [r.c EXCEPT !.unread = FALSE]]

\* fetchall(): get_rows() to the EOF packet, then _handle_eof.
FetchAllOp(c) ==
    IF ~c.unread THEN Raise(c, ENoResultSet)
    ELSE CursorHandleEof(GetRows(c, NoCount, FALSE))

\* ---------------------------------------------- AioMySQLCursorPrepared

\* Parameter sets of an executemany.
MaxParams == 2

\* The exceptions that derive from mysql.connector.errors.Error.
ConnectorErrors ==
    {EUnread, ENoResult, EOperational, EInterface, EDatabase, ENotSupported,
     EProgramming}

\* The prepared cursor's fields after a call, how the call ended, and the
\* session of the statement id it put in STMT_RESET and STMT_EXECUTE (0 when
\* it did not send that command).
PrepOut(r, p, ex, rid, xid) ==
    [r |-> r, prepared |-> p, pexecuted |-> ex, reset_id |-> rid, execute_id |-> xid]

\* The statement id `id` if the call that ended as r has sent `cmd`.
SentId(r, cmd, id) == IF Has(r.c.sent, cmd) THEN id ELSE 0

\* `self._prepared = yield from self._connection.cmd_stmt_prepare(operation)`
\* and its except clause, cmd_stmt_prepare having ended as pr.
AfterPrepare(pr, pcur, operation, sess) ==
    IF pr.exc = "" THEN PrepOut(pr, sess, operation, 0, 0)
    ELSE PrepOut(pr, pcur.prepared,
                 IF pr.exc \in ConnectorErrors THEN 0 ELSE operation, 0, 0)

\* The branch after cmd_stmt_close, if it was called, has ended as cl.
AfterClose(cl, pcur, operation, prep, sess) ==
    IF cl.exc # "" THEN PrepOut(cl, pcur.prepared, pcur.pexecuted, 0, 0)
    ELSE AfterPrepare(CmdStmtPrepareOp(cl.c, prep), pcur, operation, sess)

\* The first half of execute(): `if operation is not self._executed`.
PrepareIfNew(c, pcur, operation, prep, sess) ==
    IF operation = pcur.pexecuted
    THEN PrepOut(Return(c, ""), pcur.prepared, pcur.pexecuted, 0, 0)
    ELSE AfterClose(IF pcur.prepared # 0 THEN CmdStmtCloseOp(c) ELSE Return(c, ""),
                    pcur, operation, prep, sess)

\* AioMySQLCursorPrepared._handle_result.
PreparedHandleResult(r) ==
    IF r.exc # "" THEN r
    ELSE [r EXCEPT !.c = [r.c EXCEPT !.unread = (r.ret = "columns")]]

\* The second half of execute() after cmd_stmt_reset has ended as rs.
AfterReset(rs, s, resp) ==
    IF rs.exc # ""
    THEN PrepOut(rs, s.prepared, s.pexecuted, SentId(rs, "STMT_RESET", s.prepared), 0)
    ELSE PrepOut(PreparedHandleResult(CmdStmtExecuteOp(rs.c, NoCount, resp)),
                 s.prepared, s.pexecuted, s.prepared, s.prepared)

\* The second half of execute(), the statement taking no parameters. The
\* server knows a statement id only in the session that prepared it and
\* answers any other with an error.
ResetAndExecute(s, resp, sess) ==
    IF s.r.exc # "" THEN s
    ELSE IF s.prepared = 0
         THEN PrepOut(Raise(s.r.c, ETypeError), s.prepared, s.pexecuted, 0, 0)
    ELSE AfterReset(CmdStmtResetOp(s.r.c, IF s.prepared = sess THEN <<OkPkt(FALSE)>>
                                                                ELSE <<ErrPkt>>),
                    s, IF s.prepared = sess THEN resp ELSE <<ErrPkt>>)

\* execute(operation, params) of the prepared cursor.
PreparedExecuteOp(c, pcur, operation, prep, resp, sess) ==
    ResetAndExecute(PrepareIfNew(c, pcur, operation, prep, sess), resp, sess)

\* executemany(operation, seq_params) of the prepared cursor: the for loop
\* with n parameter sets left. `self.fetchall()` makes a generator object
\* that is never run, so the statement leaves the cursor and the connection
\* as they are.
RECURSIVE PreparedExecuteManyLoop(_, _, _, _, _, _, _)
PreparedManyNext(o, operation, prep, resp, sess, n) ==
    IF o.r.exc # "" THEN o
    ELSE PreparedExecuteManyLoop(o.r.c, o, operation, prep, resp, sess, n)

PreparedExecuteManyLoop(c, pcur, operation, prep, resp, sess, n) ==
    IF n = 0 THEN PrepOut(Return(c, "None"), pcur.prepared, pcur.pexecuted, 0, 0)
    ELSE PreparedManyNext(PreparedExecuteOp(c, pcur, operation, prep, resp, sess),
                          operation, prep, resp, sess, n - 1)

PreparedExecuteManyOp(c, pcur, operation, prep, resp, sess, n) ==
    PreparedExecuteManyLoop(c, pcur, operation, prep, resp, sess, n)

\* ------------------------------------------------- CursorSpec: actions

Cur == [list |-> executed_list, executed |-> executed]
PCur == [prepared |-> prepared, pexecuted |-> pexecuted]

\* The record of a call on a cursor: `pending` is the number of results the
\* server still held for the cursor when the call began, `handed` says that
\* the call read one of them, and `in_order` that the caller has so far read
\* every result to its end before asking for the next.
CurCall(op, r, in_order, rid, xid) ==
    [op |-> op, exc |-> r.exc, ret |-> r.ret, sent |-> r.c.sent,
     pre_unread |-> unread_result, pending |-> Len(results) - visited,
     handed |-> r.c.nread > 0, in_order |-> in_order, reset_id |-> rid,
     execute_id |-> xid]

\* execute(multi=True) has ended as o, the server having produced rs if the
\* query reached it.
ExecuteMultiDone(n, rs, o) ==
    /\ CommitCnx("execute", n, o.r)
    /\ executed_list' = o.list
    /\ executed' = o.executed
    /\ results' = IF o.r.c.sent # <<>>
                  THEN SubSeq(results, visited + 1, Len(results)) \o rs
                  ELSE results
    /\ visited' = IF o.r.c.sent = <<>> THEN visited
                  ELSE IF o.r.c.nread > 0 THEN 1 ELSE 0
    /\ clast' = CurCall("execute", o.r, o.r.c.sent # <<>> /\ visited = Len(results),
                        0, 0)
    /\ UNCHANGED <<prepared, pexecuted, session>>
    /\ UNCHANGED <<poolVars, netVars, hsVars, sendVars, fetchVars>>

ExecuteMultiOf(n, rs) ==
    ExecuteMultiDone(n, rs, CursorExecuteMultiOp(Cnx, Cur, n, MultiResponse(rs, 1)))

CursorExecuteMulti ==
    \E kinds \in UNION {[1..n -> StmtKinds] : n \in 1..MaxStmts} :
        ExecuteMultiOf(Len(kinds), MultiResults(kinds, 1))

NextExecResultDone(o) ==
    /\ CommitCnx("next_exec_result", 0, o.r)
    /\ executed_list' = o.list
    /\ executed' = o.executed
    /\ visited' = IF o.r.c.nread > 0 /\ visited < Len(results)
                  THEN visited + 1 ELSE visited
    /\ clast' = CurCall("next_exec_result", o.r, clast.in_order /\ ~unread_result,
                        0, 0)
    /\ UNCHANGED <<results, prepared, pexecuted, session>>
    /\ UNCHANGED <<poolVars, netVars, hsVars, sendVars, fetchVars>>

NextExecResult == NextExecResultDone(NextExecResultOp(Cnx, Cur))

FetchAllDone(r) ==
    /\ CommitCnx("fetchall", 0, r)
    /\ clast' = [CurCall("fetchall", r, clast.in_order, 0, 0) EXCEPT !.handed = FALSE]
    /\ UNCHANGED <<executed_list, executed, results, visited, prepared,
                   pexecuted, session>>
    /\ UNCHANGED <<poolVars, netVars, hsVars, sendVars, fetchVars>>

FetchAll == FetchAllDone(FetchAllOp(Cnx))

PreparedExecuteDone(operation, o) ==
    /\ CommitCnx("prepared_execute", operation, o.r)
    /\ prepared' = o.prepared
    /\ pexecuted' = o.pexecuted
    /\ clast' = [CurCall("prepared_execute", o.r, FALSE, o.reset_id, o.execute_id)
                    EXCEPT !.handed = FALSE]
    /\ UNCHANGED <<executed_list, executed, results, visited, session>>
    /\ UNCHANGED <<poolVars, netVars, hsVars, sendVars, fetchVars>>

PreparedExecute ==
    \E operation \in 1..MaxOps, prep \in {<<ErrPkt>>, <<PrepareOkPkt(0, 0)>>},
       resp \in ExecuteResponses :
        PreparedExecuteDone(operation,
            PreparedExecuteOp(Cnx, PCur, operation, prep, resp, session))

PreparedExecuteManyDone(n, o) ==
    /\ CommitCnx("prepared_executemany", n, o.r)
    /\ prepared' = o.prepared
    /\ pexecuted' = o.pexecuted
    /\ clast' = [CurCall("prepared_executemany", o.r, FALSE, 0, 0)
                    EXCEPT !.handed = FALSE]
    /\ UNCHANGED <<executed_list, executed, results, visited, session>>
    /\ UNCHANGED <<poolVars, netVars, hsVars, sendVars, fetchVars>>

PreparedExecuteMany ==
    \E operation \in 1..MaxOps, prep \in {<<ErrPkt>>, <<PrepareOkPkt(0, 0)>>},
       resp \in ExecuteResponses, n \in 1..MaxParams :
        PreparedExecuteManyDone(n,
            PreparedExecuteManyOp(Cnx, PCur, operation, prep, resp, session, n))

\* reconnect(attempts=1) has ended as r: a connect() that authenticates opens
\* a new session on the server, which has dropped what the old session still
\* had to send.
CursorReconnectDone(r) ==
    /\ session < MaxSessions
    /\ CommitCnx("reconnect", 1, r)
    /\ session' = IF Has(r.c.sent, "AUTH") THEN session + 1 ELSE session
    /\ results' = <<>>
    /\ visited' = 0
    /\ clast' = [CurCall("reconnect", r, FALSE, 0, 0) EXCEPT !.handed = FALSE]
    /\ UNCHANGED <<executed_list, executed, prepared, pexecuted>>
    /\ UNCHANGED <<poolVars, netVars, hsVars, sendVars, fetchVars>>

CursorReconnect ==
    \E out \in {"open_fail", "live"} :
        CursorReconnectDone(ReconnectOp(Cnx, 1, <<out>>, server_version))

\* =====================================================================
\*        AioMySQLCursor: execute, executemany and the fetch methods
\* =====================================================================

\* Rows of a SELECT's result set, parameter sets of an executemany and the
\* size of a fetchmany in FetchSpec.
MaxFetchRows == 4
MaxSize == 2

\* _nextrow = (None, None); rows are numbered from 1 in the server's order.
NoRow == 0
\* The affected_rows of the model's OK packets.
AffectedRows == 1

\* The i-th row of a result set: a text row whose value is i (kept in np).
RowPkt(i) == Pkt(1, FALSE, i, 0)
SelectResponse(n) ==
    <<ColCountPkt, ColDefPkt, EofPkt(FALSE)>> \o [i \in 1..n |-> RowPkt(i)]
        \o <<EofPkt(FALSE)>>
FetchResponses == OkOrErr \cup {SelectResponse(n) : n \in 0..MaxFetchRows}

\* The values of the n rows a read took off connection c's stream.
RowsRead(c, n) == [i \in 1..n |-> c.wire[i].np]

\* The cursor's fields after a call, how the call ended, and the rows it
\* returned.
FetchOut(r, nr, rc, rows) == [r |-> r, nextrow |-> nr, rowcount |-> rc, rows |-> rows]
FCur == [nextrow |-> nextrow, rowcount |-> rowcount]

\* _handle_eof on the connection.
EofHandled(c) == [c EXCEPT !.unread = FALSE]

\* _fetch_row from `if row:` on, `row` being a row: the look-ahead
\* `self._nextrow = yield from get_row()` has ended as g on connection c.
AfterLookAhead(g, c, f, row) ==
    IF g.exc # "" THEN FetchOut(g, f.nextrow, f.rowcount, <<>>)
    ELSE FetchOut(Return(IF g.eof THEN EofHandled(g.c) ELSE g.c, "row"),
                  IF g.nrows = 1 THEN c.wire[1].np ELSE NoRow,
                  IF f.rowcount = -1 THEN 1 ELSE f.rowcount + 1,
                  <<row>>)

\* _fetch_row with _nextrow == (None, None): the first get_row has ended as
\* g on connection c.
AfterFirstRow(g, c, f) ==
    IF g.exc # "" THEN FetchOut(g, f.nextrow, f.rowcount, <<>>)
    ELSE IF g.nrows = 1
         THEN AfterLookAhead(GetRow(g.c, FALSE), g.c, f, c.wire[1].np)
    ELSE FetchOut(Return(EofHandled(g.c), "None"), NoRow, f.rowcount, <<>>)

\* _fetch_row(), and so fetchone().
FetchRowOp(c, f) ==
    IF ~c.unread THEN FetchOut(Return(c, "None"), f.nextrow, f.rowcount, <<>>)
    ELSE IF f.nextrow = NoRow THEN AfterFirstRow(GetRow(c, FALSE), c, f)
    ELSE AfterLookAhead(GetRow(c, FALSE), c, f, f.nextrow)

\* fetchmany(size): the while loop with cnt turns left and `rows` gathered.
RECURSIVE FetchManyLoop(_, _, _, _)
FetchManyStep(o, cnt, rows) ==
    IF o.r.exc # "" THEN o
    ELSE FetchManyLoop(o.r.c, o, cnt, rows \o o.rows)

FetchManyLoop(c, f, cnt, rows) ==
    IF cnt > 0 /\ c.unread THEN FetchManyStep(FetchRowOp(c, f), cnt - 1, rows)
    ELSE FetchOut(Return(c, "rows"), f.nextrow, f.rowcount, rows)

FetchManyOp(c, f, size) == FetchManyLoop(c, f, size, <<>>)

\* fetchall() as it would be without `rows.insert(0, self._nextrow[0])`.
AfterGetRowsWithoutNextRow(g, c, f) ==
    IF g.exc # "" THEN FetchOut(g, f.nextrow, f.rowcount, <<>>)
    ELSE FetchOut(Return(EofHandled(g.c), "rows"), NoRow,
                  (IF f.rowcount = -1 THEN 0 ELSE f.rowcount) + g.nrows,
                  RowsRead(c, g.nrows))

\* fetchall() after get_rows() has ended as g on connection c.
AfterGetRows(g, c, f) ==
    IF g.exc # "" THEN FetchOut(g, f.nextrow, f.rowcount, <<>>)
    ELSE FetchOut(Return(EofHandled(g.c), "rows"), NoRow,
                  (IF f.rowcount = -1 THEN 0 ELSE f.rowcount) + g.nrows
                      + (IF f.nextrow # NoRow THEN 1 ELSE 0),
                  (IF f.nextrow # NoRow THEN <<f.nextrow>> ELSE <<>>)
                      \o RowsRead(c, g.nrows))

FetchAllRowsOp(c, f) ==
    IF ~c.unread THEN FetchOut(Raise(c, ENoResultSet), f.nextrow, f.rowcount, <<>>)
    ELSE AfterGetRows(GetRows(c, NoCount, FALSE), c, f)

\* execute(operation) after _reset_result, cmd_query having ended as r:
\* _handle_result, then _handle_noresultset or _handle_resultset.
AfterQuery(r) ==
    IF r.exc # "" THEN FetchOut(r, NoRow, -1, <<>>)
    ELSE FetchOut(CursorHandleResult(r), NoRow,
                  IF r.ret = "ok" THEN AffectedRows ELSE -1, <<>>)

\* execute(operation, params) of one statement.
CursorExecuteOp(c, f, resp) ==
    IF c.unread THEN FetchOut(Raise(c, EUnread), f.nextrow, f.rowcount, <<>>)
    ELSE AfterQuery(CmdQueryOp(c, resp))

\* executemany(operation, seq_params), the statement not being rewritten
\* into one INSERT: the for loop from its i-th parameter set on, resps[i]
\* being what the server answers to the i-th execution.
RECURSIVE ExecuteManyLoop(_, _, _, _, _)
\* `rowcnt += self._rowcount`.
ExecuteManyCount(o, resps, i, rowcnt) ==
    IF o.r.exc # "" THEN o
    ELSE ExecuteManyLoop(o.r.c, o, resps, i + 1, rowcnt + o.rowcount)

\* The loop body as it would be if fetchall() were never run.
ExecuteManyReadUnfetched(o, resps, i, rowcnt) ==
    ExecuteManyCount(o, resps, i, rowcnt)

\* `if self.with_rows and self._have_unread_result(): yield from fetchall()`
ExecuteManyRead(o, resps, i, rowcnt) ==
    IF o.r.exc = "" /\ o.r.ret = "columns" /\ o.r.c.unread
    THEN ExecuteManyCount(FetchAllRowsOp(o.r.c, o), resps, i, rowcnt)
    ELSE ExecuteManyCount(o, resps, i, rowcnt)

ExecuteManyLoop(c, f, resps, i, rowcnt) ==
    IF i > Len(resps) THEN FetchOut(Return(c, "None"), f.nextrow, rowcnt, <<>>)
    ELSE ExecuteManyRead(CursorExecuteOp(c, f, resps[i]), resps, i, rowcnt)

ExecuteManyOp(c, f, resps) ==
    IF c.unread THEN FetchOut(Raise(c, EUnread), f.nextrow, f.rowcount, <<>>)
    ELSE ExecuteManyLoop(c, f, resps, 1, 0)

\* --------------------------------------------------- FetchSpec: actions

\* The two calls before a call: the name of each, or "raised".
Trail ==
    LET t == clast.trail \o <<IF clast.exc = "" THEN clast.op ELSE "raised">>
    IN  IF Len(t) > 2 THEN Tail(t) ELSE t

\* The record of a call on the cursor, with the rows it returned.
FetchCall(op, arg, o) ==
    [op |-> op, arg |-> arg, exc |-> o.r.exc, ret |-> o.r.ret, sent |-> o.r.c.sent,
     pre_unread |-> unread_result, rows |-> o.rows, trail |-> Trail]

\* The rows of the result set in a response.
RowsIn(resp) == IF Len(resp) > 1 THEN Len(resp) - 4 ELSE 0

\* A call that sends statements has ended as o; `n` is the number of rows
\* the server holds for the cursor after it.
StatementDone(op, arg, n, o) ==
    /\ CommitCnx(op, arg, o.r)
    /\ nextrow' = o.nextrow
    /\ rowcount' = o.rowcount
    /\ fetched' = IF o.r.c.sent # <<>> THEN <<>> ELSE fetched
    /\ served' = IF o.r.c.sent # <<>> THEN n ELSE served
    /\ clast' = FetchCall(op, arg, o)
    /\ UNCHANGED <<executed_list, executed, results, visited, prepared,
                   pexecuted, session>>
    /\ UNCHANGED <<poolVars, netVars, hsVars, sendVars>>

CursorExecute ==
    \E resp \in FetchResponses :
        StatementDone("execute", 1, RowsIn(resp), CursorExecuteOp(Cnx, FCur, resp))

CursorExecuteMany ==
    \E resps \in UNION {[1..k -> FetchResponses] : k \in 1..MaxParams} :
        StatementDone("executemany", Len(resps), 0, ExecuteManyOp(Cnx, FCur, resps))

\* A fetch call has ended as o.
FetchDone(op, arg, o) ==
    /\ CommitCnx(op, arg, o.r)
    /\ nextrow' = o.nextrow
    /\ rowcount' = o.rowcount
    /\ fetched' = fetched \o o.rows
    /\ clast' = FetchCall(op, arg, o)
    /\ UNCHANGED <<executed_list, executed, results, visited, prepared,
                   pexecuted, session, served>>
    /\ UNCHANGED <<poolVars, netVars, hsVars, sendVars>>

CursorFetchOne == FetchDone("fetchone", 1, FetchRowOp(Cnx, FCur))

CursorFetchMany ==
    \E size \in 1..MaxSize : FetchDone("fetchmany", size, FetchManyOp(Cnx, FCur, size))

CursorFetchAll == FetchDone("fetchall", 0, FetchAllRowsOp(Cnx, FCur))

FetchNext ==
    \/ CursorExecute
    \/ CursorExecuteMany
    \/ CursorFetchOne
    \/ CursorFetchMany
    \/ CursorFetchAll

CurInit ==
    /\ executed_list = <<>>
    /\ executed = NoStmt
    /\ results = <<>>
    /\ visited = 0
    /\ prepared = 0
    /\ pexecuted = 0
    /\ session = 1
    /\ clast = [op |-> "init", exc |-> "", ret |-> "", sent |-> <<>>,
                pre_unread |-> FALSE, pending |-> 0, handed |-> FALSE,
                in_order |-> FALSE, reset_id |-> 0, execute_id |-> 0,
                trail |-> <<>>]
    /\ nextrow = NoRow
    /\ rowcount = -1
    /\ fetched = <<>>
    /\ served = 0

CursorNext ==
    \/ CursorExecuteMulti
    \/ NextExecResult
    \/ FetchAll

PreparedNext ==
    \/ PreparedExecute
    \/ PreparedExecuteMany
    \/ FetchAll
    \/ CursorReconnect

\* =====================================================================
\*          _send_cmd, _do_auth and the stream writer (drain)
\* =====================================================================

\* Commands begun in SendSpec.
MaxCmds == 3

\* What is sent: the authentication packet of _do_auth, and commands of
\* _send_cmd with and without expect_response.
SentCommands == {"AUTH", "QUERY", "STMT_SEND_LONG_DATA", "STMT_CLOSE"}
ExpectsResponse(cmd) == cmd \in {"AUTH", "QUERY"}

\* The commands of a sequence that the server answers.
Answered(q) == Cardinality({i \in 1..Len(q) : ExpectsResponse(q[i])})

SendStep(op, cmd, unflushed, after) ==
    [op |-> op, cmd |-> cmd, unflushed |-> unflushed, drained |-> after]

\* _send_cmd(command, ...) or _do_auth is called.
SendCmdStart ==
    /\ cmd_pc = "idle"
    /\ ncmds < MaxCmds
    /\ \E cmd \in SentCommands : cur_cmd' = cmd
    /\ cmd_pc' = "drain"
    /\ ncmds' = ncmds + 1
    /\ UNCHANGED <<wbuf, unread_replies, drained, dlast>>
    /\ UNCHANGED <<connVars, poolVars, netVars, hsVars, curVars, loopVars>>

\* `yield from self._socket.drain()` returns: the writer holds nothing more.
SendCmdDrain ==
    /\ cmd_pc = "drain"
    /\ wbuf = <<>>
    /\ cmd_pc' = "send"
    /\ drained' = TRUE
    /\ dlast' = SendStep("drain", cur_cmd, FALSE, TRUE)
    /\ UNCHANGED <<cur_cmd, wbuf, unread_replies, ncmds>>
    /\ UNCHANGED <<connVars, poolVars, netVars, hsVars, curVars, loopVars>>

\* `self._socket.send(packet)`: StreamWriter.write() puts the bytes on the
\* socket at once when the socket takes them, and keeps them in its buffer
\* otherwise. Without expect_response the call is over.
SendCmdWrite ==
    /\ cmd_pc = "send"
    /\ \E at_once \in BOOLEAN :
        IF at_once /\ wbuf = <<>>
        THEN /\ unread_replies' = unread_replies + Answered(<<cur_cmd>>)
             /\ wbuf' = wbuf
        ELSE /\ wbuf' = Append(wbuf, cur_cmd)
             /\ unread_replies' = unread_replies
    /\ drained' = FALSE
    /\ cmd_pc' = IF ExpectsResponse(cur_cmd) THEN "recv" ELSE "idle"
    /\ cur_cmd' = IF ExpectsResponse(cur_cmd) THEN cur_cmd ELSE "none"
    /\ dlast' = SendStep("send", cur_cmd, wbuf' # <<>>, FALSE)
    /\ UNCHANGED ncmds
    /\ UNCHANGED <<connVars, poolVars, netVars, hsVars, curVars, loopVars>>

\* `yield from self._socket.recv()` begins.
SendCmdRecv ==
    /\ cmd_pc = "recv"
    /\ cmd_pc' = "reading"
    /\ dlast' = SendStep("recv", cur_cmd, wbuf # <<>>, drained)
    /\ UNCHANGED <<cur_cmd, wbuf, unread_replies, ncmds, drained>>
    /\ UNCHANGED <<connVars, poolVars, netVars, hsVars, curVars, loopVars>>

\* The event loop, which runs while the coroutine is suspended in drain()
\* or recv(), puts the writer's buffer on the socket; the server answers
\* what it receives.
LoopFlushes ==
    /\ cmd_pc \in {"drain", "reading"}
    /\ wbuf # <<>>
    /\ wbuf' = <<>>
    /\ unread_replies' = unread_replies + Answered(wbuf)
    /\ UNCHANGED <<cmd_pc, cur_cmd, ncmds, drained, dlast>>
    /\ UNCHANGED <<connVars, poolVars, netVars, hsVars, curVars, loopVars>>

\* recv() returns the unread_replies.
SendCmdRecvDone ==
    /\ cmd_pc = "reading"
    /\ unread_replies > 0
    /\ unread_replies' = unread_replies - 1
    /\ cmd_pc' = "idle"
    /\ cur_cmd' = "none"
    /\ dlast' = SendStep("reply", cur_cmd, wbuf # <<>>, drained)
    /\ UNCHANGED <<wbuf, ncmds, drained>>
    /\ UNCHANGED <<connVars, poolVars, netVars, hsVars, curVars, loopVars>>

SendInit ==
    /\ cmd_pc = "idle"
    /\ cur_cmd = "none"
    /\ wbuf = <<>>
    /\ unread_replies = 0
    /\ ncmds = 0
    /\ drained = FALSE
    /\ dlast = SendStep("init", "none", FALSE, FALSE)
    /\ rpc = "idle"
    /\ rattempts = 0
    /\ rcounter = 0

SendNext ==
    \/ SendCmdStart
    \/ SendCmdDrain
    \/ SendCmdWrite
    \/ SendCmdRecv
    \/ LoopFlushes
    \/ SendCmdRecvDone

\* =====================================================================
\*                           specifications
\* =====================================================================

\* One connection and one pool, as their constructors leave them.
Init ==
    /\ ConnInit /\ recv_limit = MaxWire /\ PoolInit /\ NetInit /\ HsInit /\ CurInit
    /\ SendInit

\* A connection after connect() has returned, with room on the socket for
\* the two results of one query.
TxnInitWith(versions) ==
    /\ socket = "open"
    /\ server_version \in versions
    /\ unread_result = FALSE
    /\ have_next_result = FALSE
    /\ in_transaction = FALSE
    /\ srv_trans = FALSE
    /\ wire = <<>>
    /\ last = [op |-> "connect", arg |-> 0, pre_unread |-> FALSE, pre_more |-> FALSE,
               pre_trans |-> FALSE, exc |-> "", ret |-> "None", sent |-> <<"AUTH">>,
               nread |-> 0, eof |-> FALSE, nrows |-> 0, connects |-> 1,
               live |-> TRUE, first |-> NoByte, pre_clean |-> TRUE,
               long_data |-> <<>>]
    /\ recv_limit = MaxTxnWire
    /\ PoolInit
    /\ NetInit
    /\ HsInit
    /\ CurInit
    /\ SendInit

\* Transactions on one connection, among its queries and fetches.
TxnNext ==
    \/ CmdQueryMany
    \/ StartTransaction
    \/ CommitTxn
    \/ Rollback

TxnInit == TxnInitWith({ResetMinVersion})

TxnSpec == TxnInit /\ [][TxnNext]_vars

\* start_transaction, commit and rollback on servers before and from 5.6.5,
\* among statements whose rows are read one by one.
StartInit == TxnInitWith({ReadOnlyMinVersion - 1, ReadOnlyMinVersion})

StartNext ==
    \/ StartTransaction
    \/ CommitTxn
    \/ Rollback
    \/ CmdStmtExecute
    \/ GetRowCall

StartSpec == StartInit /\ [][StartNext]_vars

\* The commands of one connection.
ConnSpec == Init /\ [][ConnNext]_vars

\* reconnect() and ping() of one connection, which a query may have left with
\* an unread result.
ReconnectNext ==
    \/ Connect
    \/ ServerDrop
    \/ Reconnect
    \/ Ping
    \/ CmdQuery
    \/ GetRowsCall

ReconnectSpec == Init /\ [][ReconnectNext]_vars

\* reconnect() turn by turn, and what happens to the connection between two
\* calls of it.
ReconnectLoopNext ==
    \/ ReconnectStart
    \/ ReconnectTurn
    \/ ServerDrop
    \/ CmdQuery

ReconnectLoopSpec == Init /\ [][ReconnectLoopNext]_vars

PoolSpec == Init /\ [][PoolNext]_vars

\* One socket, its peer, and the rows read from it.
NetSpec == Init /\ [][NetNext]_vars

\* connect() on one connection, step by step, and the commands around it.
HandshakeInit ==
    /\ ConnInit
    /\ recv_limit = MaxWire
    /\ PoolInit
    /\ NetInit
    /\ HsStart
    /\ srv_greeting \in Greetings
    /\ CurInit
    /\ SendInit

HandshakeSpec == HandshakeInit /\ [][HsNext]_vars

\* The cursors of a connection that connect() has set up.
CursorInit ==
    /\ socket = "open"
    /\ server_version = ResetMinVersion
    /\ unread_result = FALSE
    /\ have_next_result = FALSE
    /\ in_transaction = FALSE
    /\ srv_trans = FALSE
    /\ wire = <<>>
    /\ last = [op |-> "connect", arg |-> 0, pre_unread |-> FALSE, pre_more |-> FALSE,
               pre_trans |-> FALSE, exc |-> "", ret |-> "None", sent |-> <<"AUTH">>,
               nread |-> 0, eof |-> FALSE, nrows |-> 0, connects |-> 1,
               live |-> TRUE, first |-> NoByte, pre_clean |-> TRUE,
               long_data |-> <<>>]
    /\ recv_limit = MaxCurWire
    /\ PoolInit
    /\ NetInit
    /\ HsInit
    /\ CurInit
    /\ SendInit

\* execute(multi=True) on one cursor, and the reading of its results.
CursorSpec == CursorInit /\ [][CursorNext]_vars

\* One prepared cursor of a connection that reconnects.
PreparedSpec == CursorInit /\ [][PreparedNext]_vars
FetchSpec == CursorInit /\ [][FetchNext]_vars

\* The commands of one connection, step by step, and its stream writer.
SendSpec == Init /\ [][SendNext]_vars

\* =====================================================================
\*                              properties
\* =====================================================================

\* The operations that send a command.
CommandOps ==
    {"cmd_query", "cmd_query_many", "cmd_init_db", "cmd_ping", "cmd_quit",
     "cmd_statistics", "cmd_change_user", "cmd_stmt_prepare", "cmd_stmt_execute",
     "cmd_stmt_close", "cmd_stmt_reset", "cmd_reset_connection", "next_result"}

\* The operations that fetch rows.
FetchOps == {"get_rows", "get_rows_binary", "get_row", "get_row_binary"}

\* The connections the pool has created.
Made == {c \in ConnIds : conns[c].made}

\* C1: a command called while unread_result is true (next_result: while more
\* results are pending too) raises InternalError 'Unread result found.' and
\* has written nothing to the transport.
C1_UnreadBlocksCommands ==
    (/\ last.op \in CommandOps
     /\ last.pre_unread
     /\ last.op = "next_result" => last.pre_more)
    => (last.exc = EUnread /\ last.sent = <<>>)

\* C2: get_connection never waits for the queue: a coroutine inside
\* get_connection holds the connection it dequeued; a get_connection that
\* ended with PoolError found the queue empty and left it so; and once
\* PoolSize leases are out of a pool of PoolSize connections the queue is
\* empty, so that the next get_connection is refused.
C2_GetNeverWaits ==
    /\ \A t \in Tasks : pc[t] \in {"idle", "is_connected", "reconnect"}
    /\ \A t \in Tasks : pc[t] # "idle" => (tcnx[t] \in Made /\ lock_count > 0)
    /\ (plast.op = "get_connection" /\ plast.exc = EPool /\ plast.cnx = 0)
          => cnx_queue = <<>>
    /\ (Cardinality(Made) <= PoolSize /\ Sum(leased, ConnIds) = PoolSize)
          => cnx_queue = <<>>

\* PoolSize connections made, all of them leased, and one more
\* get_connection refused with PoolError by coroutines that are not suspended.
C2_Witness ==
    /\ Cardinality(Made) = PoolSize
    /\ Sum(leased, ConnIds) = PoolSize
    /\ plast = [op |-> "get_connection", cnx |-> 0, exc |-> EPool]
    /\ \A t \in Tasks : pc[t] = "idle"

\* C3: the connections of the pool, queued plus leased, are never more than
\* pool_size.
C3_PoolNeverGrows == Len(cnx_queue) + Sum(leased, ConnIds) <= PoolSize

\* C4: when get_connection has handed out a lease, the leased connection
\* carries the pool's current configuration and its _pool_config_version is
\* the pool's _config_version.
C4_LeaseIsCurrent ==
    (plast.op = "get_connection" /\ plast.exc = "")
    => (/\ conns[plast.cnx].ver = config_version
        /\ conns[plast.cnx].cfg = cnx_config
        /\ conns[plast.cnx].sock # "none")

\* C5: the locked sections of the pool exclude each other: the lock is held
\* once at most, and at most one coroutine is inside get_connection's.
C5_LockSerializes == lock_count <= 1 /\ Cardinality(Holders) <= 1

\* C6: a reconnect(attempts=n), or a ping(reconnect=True, attempts=n) whose
\* first ping failed, that returns normally leaves a live connection, and one
\* that does not raises InterfaceError after exactly n attempts.
C6_ReconnectIffLive ==
    (last.op \in {"reconnect", "ping_reconnect"} /\ last.connects > 0)
    => (/\ last.connects <= last.arg
        /\ last.exc = "" => last.live
        /\ last.exc # "" => (last.exc = EInterface /\ last.connects = last.arg
                             /\ ~last.live))

\* C7: a get_connection whose reconnect failed ends with the InterfaceError,
\* with the connection it dequeued back in the queue and no lease made.
C7_FailedReconnectRequeues ==
    [][\A t \in Tasks :
          (pc[t] = "reconnect" /\ pc'[t] = "idle" /\ leased' = leased)
          => (/\ plast'.exc = EInterface
              /\ tcnx[t] \in Range(cnx_queue')
              /\ Len(cnx_queue') = Len(cnx_queue) + 1)]_vars

\* C8: the release of a lease puts the leased connection, as it is, back in
\* the queue, from where it can be leased again.
C8_ReleaseReturnsToQueue ==
    [][(plast'.op = "release" /\ (plast' # plast \/ leased' # leased))
          => (/\ plast'.exc = ""
              /\ plast'.cnx \in Range(cnx_queue')
              /\ leased'[plast'.cnx] = leased[plast'.cnx] - 1
              /\ conns' = conns)]_vars

\* C9: when cmd_query, cmd_query_many, next_result or cmd_stmt_execute has
\* returned a result-set header, unread_result is true.
C9_HeaderSetsUnread ==
    (/\ last.op \in {"cmd_query", "cmd_query_many", "next_result", "cmd_stmt_execute"}
     /\ last.exc = ""
     /\ last.ret = "columns")
    => unread_result

C11_SecondStartFails ==
    [][(/\ last.op = "start_transaction"
        /\ last.exc = ""
        /\ last'.op = "start_transaction")
       => (last'.exc = EProgramming /\ last'.sent = <<>>)]_vars

\* C12: a rollback called with a result set unread does not raise the
\* unread-result error, sends ROLLBACK only after get_rows has read the EOF
\* packet, and returns with unread_result false.
C12_RollbackDrains ==
    (last.op = "rollback" /\ last.pre_unread)
    => (/\ last.exc # EUnread
        /\ last.sent # <<>> => last.eof
        /\ last.exc = "" => ~unread_result)

\* C13: a packet that recv() returns carries the number expected next, the
\* number of the packet before it plus one modulo 256; a packet with another
\* number makes recv() raise.
C13_RecvChecksSequence ==
    (nlast.op = "recv" /\ nlast.exc = "") => nlast.pkts[1].seq = nlast.expected

\* C14: every send() writes its packets, and their numbers increase by one
\* from packet to packet modulo 256, the fragments of a long payload
\* included: the packet after number 255 carries number 0.
C14_SendNumbersDense ==
    nlast.op = "send"
    => /\ nlast.exc = ""
       /\ \A i \in 1..Len(nlast.pkts) :
              nlast.pkts[i].seq = (nlast.pkts[1].seq + i - 1) % (MaxSeq + 1)

\* C15: a payload of MaxPktLen bytes or more leaves send() as packets of
\* exactly MaxPktLen bytes followed by one last packet of fewer bytes, which
\* is empty when the payload is a multiple of MaxPktLen.
C15_SplitEndsShort ==
    (nlast.op = "send" /\ nlast.exc = "" /\ Len(nlast.buf) >= MaxPktLen)
    => /\ \A i \in 1..(Len(nlast.pkts) - 1) : nlast.pkts[i].len = MaxPktLen
       /\ nlast.pkts[Len(nlast.pkts)].len < MaxPktLen
       /\ Len(nlast.buf) % MaxPktLen = 0 => nlast.pkts[Len(nlast.pkts)].len = 0

\* C16: when the packets send() made of a payload longer than MaxPktLen come
\* back on a stream that stays open and are read as one row, the row is that
\* payload and only the payload's packets have been read.
C16_RoundTrip ==
    (nlast.op = "read_row" /\ nlast.echo.on /\ ~closed
     /\ Len(nlast.echo.buf) > MaxPktLen)
    => /\ nlast.exc = ""
       /\ ~nlast.eof
       /\ nlast.data = nlast.echo.buf
       /\ nlast.nread = nlast.echo.n

\* C17: what recv() returns is one whole logical packet, its header and all
\* of its payload, never a full-length fragment that other packets continue
\* and never a payload the stream's end cut short.
C17_RecvReturnsLogicalPacket ==
    (nlast.op = "recv" /\ nlast.exc = "")
    => /\ Len(nlast.pkts[1].payload) = nlast.pkts[1].len
       /\ nlast.pkts[1].len < MaxPktLen

\* C18 as stated: a buffer of at most 50 bytes leaves send_compressed
\* uncompressed, with an uncompressed-length field of 0, and a buffer of 51
\* bytes leaves it compressed.
C18_ThresholdOnBuffer ==
    (nlast.op = "send_compressed" /\ nlast.exc = "" /\ nlast.buflen <= MAX_PACKET_LENGTH)
    => /\ Len(nlast.pkts) = 1
       /\ nlast.pkts[1].zipped = (nlast.buflen > MinCompress)
       /\ ~nlast.pkts[1].zipped => nlast.pkts[1].ulen = 0

\* C18: send_compressed puts the 4-byte header before the buffer and
\* compresses the packet when it is longer than 50 bytes: a buffer of at most
\* 46 bytes is sent uncompressed, with an uncompressed-length field of 0, and
\* a buffer of 47 bytes or more is sent compressed, with the packet's length
\* in that field.
C18_ThresholdOnPacket ==
    (nlast.op = "send_compressed" /\ nlast.exc = "" /\ nlast.buflen <= MAX_PACKET_LENGTH)
    => /\ Len(nlast.pkts) = 1
       /\ nlast.pkts[1].zipped = (nlast.buflen + HeaderLen > MinCompress)
       /\ nlast.pkts[1].ulen = IF nlast.pkts[1].zipped THEN nlast.buflen + HeaderLen ELSE 0

\* A buffer of 46 bytes, a packet of 50, has been sent uncompressed.
C18_Witness ==
    /\ nlast.op = "send_compressed"
    /\ nlast.exc = ""
    /\ nlast.buflen + HeaderLen = MinCompress
    /\ ~nlast.pkts[1].zipped

IsVersion(t, a, b, c) ==
    /\ Len(t) >= a + b + c + 2
    /\ \A i \in (1..a) \cup ((a + 2)..(a + b + 1)) \cup ((a + b + 3)..(a + b + c + 2)) :
           IsDigit(t[i])
    /\ t[a + 1] = "."
    /\ t[a + b + 2] = "."

\* The greetings C20 says are accepted: no error packet, a version text of
\* the form major.minor.patch, and a version of 4.1 or more, or of 1.4 or
\* more when the text has the fabric tag after the version.
Acceptable(g) ==
    /\ g.b0 # ErrByte
    /\ g.wellformed
    /\ \E a \in 1..2, b \in 1..2, c \in 1..3 :
        /\ IsVersion(g.text, a, b, c)
        /\ LET major == ToInt(SubSeq(g.text, 1, a), 0)
               minor == ToInt(SubSeq(g.text, a + 2, a + b + 1), 0)
               tag == Drop(g.text, a + b + c + 2)
           IN  \/ major > 4
               \/ major = 4 /\ minor >= 1
               \/ "f" \in Range(tag) /\ (major > 1 \/ (major = 1 /\ minor >= 4))

\* C20: _do_handshake accepts a greeting exactly when its first byte is not
\* the error byte and its version text is major.minor.patch with a version
\* of 4.1 or more, or carries the fabric tag with a version of 1.4 or more;
\* any other greeting makes it raise, and no authentication packet has been
\* sent then.
C20_HandshakeAccepts ==
    hlast.op = "handshake"
    => /\ (hlast.exc = "") <=> Acceptable(hlast.greeting)
       /\ hlast.exc # "" => auth_sent = 0

\* A Fabric greeting with a version below 4.1 has been accepted.
C20_Witness ==
    /\ hlast.op = "handshake"
    /\ hlast.exc = ""
    /\ hs_version[1] < 4

\* C21: when the server's first packet after the authentication packet is
\* the old-password sentinel, _do_auth raises NotSupportedError, and when it
\* is an error packet, the server's error; either way the server has not
\* accepted the client and connect() does not reach Ready.
C21_AuthRefused ==
    (hlast.op = "auth" /\ hlast.replies[1] \in {"old_password", "err"})
    => /\ hlast.exc = IF hlast.replies[1] = "err" THEN EDatabase ELSE ENotSupported
       /\ phase # "Ready"
       /\ ~srv_auth

\* The old-password sentinel has been refused.
C21_Witness ==
    /\ hlast.op = "auth"
    /\ hlast.replies[1] = "old_password"
    /\ hlast.exc = ENotSupported

\* C22 as stated: the client answers every AuthSwitchRequest, so that the
\* exchange ends on the first packet that is none, and it ends without an
\* exception of the client when that packet is OK or auth-more-data.
C22_SwitchLoops ==
    (hlast.op = "auth" /\ hlast.replies[1] = "switch")
    => /\ hlast.nread = Len(hlast.replies)
       /\ hlast.sent = Len(hlast.replies)
       /\ hlast.replies[Len(hlast.replies)] \in {"ok", "more_data"} => hlast.exc = ""

\* C22: the client answers the first AuthSwitchRequest and reads one more
\* packet, on which the exchange ends: OK and auth-more-data end it without
\* an exception, ERR with the server's error, and any other packet, a second
\* AuthSwitchRequest included, with InterfaceError and without an answer.
C22_SwitchOnce ==
    (hlast.op = "auth" /\ hlast.replies[1] = "switch")
    => /\ hlast.nread = 2
       /\ hlast.sent = 2
       /\ hlast.exc = IF hlast.replies[2] \in {"ok", "more_data"} THEN ""
                      ELSE IF hlast.replies[2] = "err" THEN EDatabase
                      ELSE EInterface

\* A second AuthSwitchRequest has ended the exchange.
C22_Witness ==
    /\ hlast.op = "auth"
    /\ Len(hlast.replies) > 2
    /\ hlast.exc = EInterface
    /\ hlast.sent = 2

\* C23: next_result called when the server has no further result to send
\* returns None, reads nothing and does not raise or wait; called when one is
\* pending and no result is unread it reads that result.
C23_NextResult ==
    last.op = "next_result"
    => /\ ~last.pre_more => (last.ret = "None" /\ last.nread = 0 /\ last.exc = "")
       /\ last.exc # EBlocked
       /\ (last.pre_more /\ ~last.pre_unread) => last.nread >= 1

\* C24: with execute(multi=True), when every result is read to its end
\* before next_exec_result is called, each call that has a result to hand
\* over hands over the next one in statement order, raising the server's
\* error if the statement failed and otherwise leaving cursor.statement at
\* the statement that produced it; and next_exec_result returns False
\* without raising exactly when the server holds no further result.
C24_MultiVisits ==
    (clast.op \in {"execute", "next_exec_result"} /\ clast.in_order)
        => /\ clast.op = "next_exec_result"
                => ((clast.ret = "False" /\ clast.exc = "") <=> clast.pending = 0)
           /\ (clast.op = "execute" \/ clast.pending > 0)
                => /\ clast.handed
                   /\ IF results[visited].kind = "err" THEN clast.exc = EDatabase
                      ELSE clast.exc = "" /\ executed = results[visited].stmt

\* C25: a command that finds the connection with nothing unread, is sent, and
\* reads an error packet as its response raises the server's error and
\* leaves unread_result false, the transport open and nothing on the wire;
\* the command called next is not refused for an unread result, a missing
\* connection or a lost one, and does not wait for a reply that never comes.
C25_ErrorKeepsConnection ==
    [][/\ (last' # last /\ last'.op \in CommandOps /\ last'.pre_clean
           /\ last'.sent # <<>> /\ last'.first = ErrByte)
            => /\ last'.exc = EDatabase
               /\ ~unread_result'
               /\ socket' = "open"
               /\ wire' = <<>>
       /\ (last.op \in CommandOps /\ last.pre_clean /\ last.sent # <<>>
           /\ last.first = ErrByte /\ socket = "open"
           /\ last'.op \in CommandOps \ {"next_result"} /\ last' # last)
            => last'.exc \notin {EUnread, EOperational, EAttribute, EConnLost, EBlocked}
      ]_vars

C25_Witness ==
    /\ last.op = "cmd_query" /\ last.pre_clean /\ last.first = ErrByte
    /\ last.exc = EDatabase /\ socket = "open"

\* C26: reset_session on a live connection (nothing unread, the ping
\* answered): with a server of 5.7.3 or later it sends RESET_CONNECTION and
\* no change-user packet; with an older server and no compression it sends
\* the change-user packet; with an older server and compression it raises
\* NotSupportedError and sends no change-user packet.
C26_ResetSession ==
    (last.op = "reset_session" /\ ~last.pre_unread /\ last.pre_clean
     /\ last.sent # <<>> /\ last.first = 0)
        => IF server_version >= ResetMinVersion
           THEN Has(last.sent, "RESET_CONNECTION") /\ ~Has(last.sent, "CHANGE_USER")
           ELSE IF last.arg = 0 THEN Has(last.sent, "CHANGE_USER")
           ELSE last.exc = ENotSupported /\ ~Has(last.sent, "CHANGE_USER")

\* C27: reset_session raises OperationalError when the connection is not
\* connected, and InternalError when it is connected and holds an unread
\* result.
C27_ResetSessionErrors ==
    [][(last' # last /\ last'.op = "reset_session")
        => /\ socket # "open" => last'.exc = EOperational
           /\ (socket = "open" /\ unread_result) => last'.exc = EUnread
      ]_vars

\* C28: a prepared cursor never puts in STMT_RESET or STMT_EXECUTE a
\* statement id that it obtained in an earlier session of its connection.
C28_NoStaleStatement ==
    clast.op = "prepared_execute"
        => /\ clast.reset_id \in {0, session}
           /\ clast.execute_id \in {0, session}

\* The sum of the numbers in a sequence.
RECURSIVE SeqSum(_)
SeqSum(q) == IF q = <<>> THEN 0 ELSE Head(q) + SeqSum(Tail(q))

\* C29: cmd_stmt_execute with a file-like parameter, on a connected
\* connection with nothing unread: the long-data packets, then STMT_EXECUTE
\* and nothing else are sent; the chunks are the file cut in order into
\* pieces of 8192 bytes, the last one shorter or equal; and exactly one
\* response is read, after STMT_EXECUTE: one OK or error packet, or the
\* header of one result set.
C29_LongDataThenExecute ==
    (/\ last.op = "cmd_stmt_execute" /\ last.arg # NoCount
     /\ ~last.pre_unread /\ last.pre_clean /\ last.live)
        => /\ last.sent = Rep("STMT_SEND_LONG_DATA", Len(last.long_data))
                            \o <<"STMT_EXECUTE">>
           /\ SeqSum(last.long_data) = last.arg
           /\ \A i \in 1..Len(last.long_data) :
                /\ last.long_data[i] \in 1..8192
                /\ i < Len(last.long_data) => last.long_data[i] = 8192
           /\ last.nread = IF last.first \in {0, EofByte, ErrByte} THEN 1 ELSE 3
           /\ IF last.first \in {0, EofByte, ErrByte} THEN wire = <<>>
              ELSE /\ wire # <<>>
                   /\ \A i \in 1..Len(wire) :
                        wire[i].b0 = IF i = Len(wire) THEN EofByte ELSE 0

C29_Witness ==
    /\ last.op = "cmd_stmt_execute" /\ last.arg = 8193 /\ last.pre_clean
    /\ Len(last.long_data) = 2 /\ last.exc = "" /\ last.ret = "columns"

\* C30: when the read of a command's response begins, a drain() has
\* completed since the command's bytes were written, and the stream writer
\* holds no unsent bytes.
C30_DrainBeforeRead ==
    dlast.op = "recv" => (dlast.drained /\ ~dlast.unflushed)

\* The rows 1..n in the server's order.
RowsTo(n) == [i \in 1..n |-> i]

\* C31: an executemany that is not rewritten into one INSERT and returns
\* has sent the statement once per parameter set, has read every result set
\* to its end and leaves unread_result false; an execute that follows it
\* does not raise the unread-result error, and a fetchall after that
\* execute of a SELECT returns every row in the server's order.
C31_ExecuteManyThenSelect ==
    /\ (clast.op = "executemany" /\ clast.exc = "")
        => /\ ~unread_result
           /\ wire = <<>>
           /\ clast.sent = [i \in 1..clast.arg |-> "QUERY"]
    /\ (clast.op = "execute" /\ clast.trail # <<>>
            /\ clast.trail[Len(clast.trail)] = "executemany")
        => clast.exc # EUnread
    /\ (clast.op = "fetchall" /\ clast.trail = <<"executemany", "execute">>
            /\ clast.pre_unread)
        => /\ clast.exc = ""
           /\ clast.rows = RowsTo(served)
           /\ ~unread_result

\* executemany over two parameter sets whose executions return rows, then a
\* SELECT of three rows fetched with fetchall.
C31_Witness ==
    /\ clast.op = "fetchall"
    /\ clast.trail = <<"executemany", "execute">>
    /\ clast.rows = <<1, 2, 3>>
    /\ last.op = "fetchall"

C40_PreparedExecuteMany ==
    (clast.op = "prepared_executemany" /\ ~clast.pre_unread)
        => /\ clast.exc # EUnread
           /\ clast.exc = "" => ~unread_result

\* C32: whatever the interleaving of get_connection and release, no
\* connection is leased twice at the same time, none is both in the queue
\* and leased, and none is in the queue twice or in the hands of two
\* coroutines inside get_connection.
C32_SingleOwner ==
    \A c \in ConnIds :
        /\ leased[c] <= 1
        /\ ~(leased[c] > 0 /\ c \in Range(cnx_queue))
        /\ Cardinality({i \in 1..Len(cnx_queue) : cnx_queue[i] = c}) <= 1
        /\ Cardinality({t \in Tasks : tcnx[t] = c}) <= 1
        /\ (\E t \in Tasks : tcnx[t] = c)
            => (leased[c] = 0 /\ c \notin Range(cnx_queue))

\* Two coroutines inside get_connection at once, each with a connection of
\* its own, while a third connection is leased and released again.
C32_Witness ==
    /\ \A t \in Tasks : pc[t] # "idle"
    /\ Sum(leased, ConnIds) = 0
    /\ plast.op = "release" /\ plast.exc = ""

\* C33: a connection of the pool is never dropped: every connection that
\* was made is in the queue, leased, or in the hands of a coroutine that is
\* still inside get_connection.
C33_NeverDropped ==
    \A c \in ConnIds :
        conns[c].made
            => \/ c \in Range(cnx_queue)
               \/ leased[c] > 0
               \/ \E t \in Tasks : pc[t] # "idle" /\ tcnx[t] = c

\* C34: no coroutine is suspended on the network inside get_connection (in
\* the liveness ping or in reconnect) while the pool lock is held.
C34_LockFreeDuringIO ==
    (\E t \in Tasks : pc[t] \in {"is_connected", "reconnect"})
        => (lock_owner = "none" /\ lock_count = 0)

\* C38: a shutdown() or close_connection() called on a socket whose stream
\* writer is open closes the writer.
C38_CloseClosesWriter ==
    [][(/\ writer = "open"
        /\ nlast' # nlast
        /\ nlast'.op \in {"shutdown", "close_connection"})
          => writer' = "closed"]_vars

\* C35: reconnect(attempts) makes at most `attempts` connect attempts (none
\* when attempts is 0 or negative), and while it is in its loop the attempts
\* it has made are fewer than `attempts`, so that the loop ends.
C35_ReconnectBounded ==
    /\ rcounter <= (IF rattempts > 0 THEN rattempts ELSE 0)
    /\ rpc = "loop" => rcounter < rattempts

\* C36: a start_transaction that its own checks reject (ProgrammingError
\* for a transaction in progress, ValueError for an unknown isolation level
\* or for readonly on a server before 5.6.5) has sent nothing; one that
\* returns has sent the isolation-level statement, the access-mode statement
\* and START TRANSACTION in that order, each at most once.
C36_RejectedSendsNothing ==
    /\ (last.op = "start_transaction" /\ last.exc \in {EProgramming, EValue})
        => last.sent = <<>>
    /\ (last.op = "start_transaction" /\ last.exc = "")
        => \E iso, ro \in BOOLEAN :
            last.sent = (IF iso THEN <<"QUERY SET TRANSACTION ISOLATION LEVEL">>
                         ELSE <<>>)
                        \o (IF ro THEN <<"QUERY SET TRANSACTION ACCESS MODE">>
                            ELSE <<>>)
                        \o <<"QUERY START TRANSACTION">>

\* C37: a command that sends a packet and reads a response begins with
\* nothing left on the wire from an earlier command, so that what it reads
\* is the reply to what it sent.
C37_ReplyToSameCommand ==
    (/\ last.op \in CommandOps \ {"next_result"}
     /\ last.sent # <<>>
     /\ last.nread > 0)
        => last.pre_clean

====
